---- MODULE Spec2Model ----
(***************************************************************************)
(* A model of cjk-text-formatter: the rule pipeline of polish.py           *)
(* (polish_text and the rules it applies), the custom rule engine, and the *)
(* structure-preserving adapters of processors.py.                         *)
(*                                                                         *)
(* A text is a sequence of Unicode codepoints (naturals), so the character *)
(* classes are the codepoint ranges of the source, and a regular           *)
(* expression substitution is a left-to-right scan for non-overlapping     *)
(* matches, as re.sub performs it.                                         *)
(***************************************************************************)
EXTENDS Integers, Sequences, FiniteSets, TLC

VARIABLES
    call,              \* the entry point that was called
    input,             \* the text it was called with
    rules,             \* config.rules: rule name -> value
    custom,            \* config.custom_rules: the list of custom rule entries
    text,              \* the local variable text (html in HTMLProcessor)
    pc,                \* the statement the call is at
    k,                 \* the index of the loop that is running
    log,               \* history: the statements of polish_text run so far
    raised,            \* the exception that left the call, or "none"
    pass,              \* 1, or 2 when polish_text runs on its own result
    first,             \* the result of the first run (pass = 2)
    result,            \* the value returned by contains_cjk
    code_blocks,       \* the saved spans of an adapter
    lines,             \* MarkdownProcessor.process: text.split('\n')
    processed_lines,   \* MarkdownProcessor.process: the lines done so far
    in_indented_code,  \* MarkdownProcessor.process: the scanner's flag
    fed,               \* history: the texts an adapter passed to polish_text
    bs4_available,     \* HTMLProcessor._bs4_available
    doc,               \* the element tree that html.parser reads from the input
    soup,              \* _process_with_bs4: the tree being rewritten
    base,              \* history: the configuration a merge started from
    override,          \* the source merged into it (config_data, or override)
    stats              \* polish_text_verbose: the PolishStats it returns

vars == <<call, input, rules, custom, text, pc, k, log, raised, pass, first,
          result, code_blocks, lines, processed_lines, in_indented_code, fed,
          bs4_available, doc, soup, base, override, stats>>

-----------------------------------------------------------------------------
(* Codepoints.  Cp names the single characters the patterns mention.       *)

Cp == [ tab |-> 9, nl |-> 10, space |-> 32, bang |-> 33, dollar |-> 36,
        percent |-> 37, lparen |-> 40, rparen |-> 41, comma |-> 44,
        hyphen |-> 45, dot |-> 46, slash |-> 47, colon |-> 58, semi |-> 59,
        lt |-> 60, gt |-> 62, question |-> 63, lbracket |-> 91,
        rbracket |-> 93, underscore |-> 95, backtick |-> 96, bar |-> 124,
        pound |-> 163, yen |-> 165, degree |-> 176, times |-> 215,
        emdash |-> 8212, lsquo |-> 8216, rsquo |-> 8217, ldquo |-> 8220,
        rdquo |-> 8221, permille |-> 8240, euro |-> 8364, rupee |-> 8377,
        celsius |-> 8451, fahrenheit |-> 8457, rarrow |-> 8594,
        fwlbracket |-> 12304, fwrbracket |-> 12305,
        fwbang |-> 65281, fwlparen |-> 65288, fwrparen |-> 65289,
        fwA |-> 65313 ]

\* polish.py:17-20, the script ranges
\* The Han block without its last codepoint
HanShort == [lo |-> 19968, hi |-> 40958]

HAN      == [lo |-> 19968, hi |-> 40959]    \* U+4E00-U+9FFF
HIRAGANA == [lo |-> 12352, hi |-> 12447]    \* U+3040-U+309F
KATAKANA == [lo |-> 12448, hi |-> 12543]    \* U+30A0-U+30FF
HANGUL   == [lo |-> 44032, hi |-> 55215]    \* U+AC00-U+D7AF

InRange(c, r) == r.lo <= c /\ c <= r.hi

\* polish.py:23-24
CJK_ALL(c) ==
    InRange(c, HAN) \/ InRange(c, HIRAGANA) \/ InRange(c, KATAKANA) \/ InRange(c, HANGUL)

CJK_NO_KOREAN(c) ==
    InRange(c, HAN) \/ InRange(c, HIRAGANA) \/ InRange(c, KATAKANA)

\* polish.py:27-30 (U+FF0C U+3002 U+FF01 U+FF1F U+FF1B U+FF1A U+3001, ...)
CJK_TERMINAL_PUNCTUATION == <<65292, 12290, 65281, 65311, 65307, 65306, 12289>>
CJK_CLOSING_BRACKETS == <<12299, 12301, 12303, 12305, 65289, 12297>>
CJK_OPENING_BRACKETS == <<12298, 12300, 12302, 12304, 65288, 12296>>
CJK_EM_DASH == <<Cp.emdash, Cp.emdash>>

Chars(s) == { s[i] : i \in 1..Len(s) }

\* polish.py:33, the character class flanking a dash run
CJK_CHARS_PATTERN(c) ==
    \/ CJK_NO_KOREAN(c)
    \/ c \in Chars(CJK_OPENING_BRACKETS) \cup Chars(CJK_CLOSING_BRACKETS)
    \/ c \in Chars(CJK_TERMINAL_PUNCTUATION)

\* \s of a str pattern, and str.isspace: the Unicode whitespace characters
IsSpace(c) ==
    c \in (9..13) \cup (28..32) \cup {133, 160, 5760} \cup (8192..8202)
          \cup {8232, 8233, 8239, 8287, 12288}

\* \d of a str pattern: the decimal digits (category Nd) of the blocks the
\* texts of this model use, ASCII and the full-width forms
IsDigit(c) == c \in (48..57) \cup (65296..65305)

\* [A-Za-z0-9]
IsAlnum(c) == c \in (48..57) \cup (65..90) \cup (97..122)

-----------------------------------------------------------------------------
(* The regular expression engine.                                          *)

At(t, i) == IF i >= 1 /\ i <= Len(t) THEN t[i] ELSE 0 - 1

\* The position after the longest run of characters satisfying P that
\* starts at i (a greedy P*).
Span(P(_), t, i) ==
    IF i > Len(t) THEN i
    ELSE CHOOSE j \in i..(Len(t) + 1) :
            /\ \A m \in i..(j - 1) : P(t[m])
            /\ (j = Len(t) + 1 \/ ~P(t[j]))

IsHyphen(c) == c = Cp.hyphen
IsBlank(c) == c = Cp.space
IsNewline(c) == c = Cp.nl

\* Whether the literal lit stands in t at position i.
Lit(t, i, lit) ==
    /\ i >= 1
    /\ i + Len(lit) - 1 <= Len(t)
    /\ \A m \in 1..Len(lit) : t[i + m - 1] = lit[m]

\* The start of the leftmost match at or after pos, or 0 when there is none.
\* M(t, i) is the index of the last character of the match that starts at
\* i, or 0 when none starts there (no pattern here matches the empty string).
NextMatch(M(_, _), t, pos) ==
    LET starts == { i \in pos..Len(t) : M(t, i) # 0 }
    IN  IF starts = {} THEN 0
        ELSE CHOOSE i \in starts : \A j \in starts : i <= j

\* pattern.sub(repl, t): the matches are found left to right, each search
\* starting after the previous match; R(t, i, e) replaces the match i..e
\* and the text between the matches is copied.
ReSub(M(_, _), R(_, _, _), t) ==
    LET n == Len(t)
        f[pos \in 1..(n + 1)] ==
            LET i == NextMatch(M, t, pos)
                e == M(t, i)
            IN  IF i = 0 THEN SubSeq(t, pos, n)
                ELSE SubSeq(t, pos, i - 1) \o R(t, i, e) \o f[e + 1]
    IN  f[1]

\* pattern.search(t) is not None
ReSearch(M(_, _), t) == NextMatch(M, t, 1) # 0

\* len(pattern.findall(t)): the number of non-overlapping matches
ReCount(M(_, _), t) ==
    LET n == Len(t)
        f[pos \in 1..(n + 1)] ==
            LET i == NextMatch(M, t, pos)
            IN  IF i = 0 THEN 0 ELSE 1 + f[M(t, i) + 1]
    IN  f[1]

-----------------------------------------------------------------------------
(* contains_cjk, polish.py:105-121                                         *)

CHINESE_RE(t, i) == IF InRange(t[i], HAN) THEN i ELSE 0
HANGUL_RE(t, i) == IF InRange(t[i], HANGUL) THEN i ELSE 0

\* A gate that takes kana for CJK
contains_cjk_or_kana(t) == \E i \in 1..Len(t) : CJK_ALL(t[i])

contains_cjk(t) == ReSearch(CHINESE_RE, t) \/ ReSearch(HANGUL_RE, t)

-----------------------------------------------------------------------------
(* _normalize_ellipsis, polish.py:124-141                                  *)

\* \s*\.\s+\.\s+\.(?:\s+\.)*
RECURSIVE MoreDots(_, _)
MoreDots(t, e) ==       \* e: the last dot matched so far; (?:\s+\.)* greedy
    LET j == Span(IsSpace, t, e + 1)
    IN  IF j > e + 1 /\ At(t, j) = Cp.dot THEN MoreDots(t, j) ELSE e

ELLIPSIS_PATTERN(t, i) ==
    LET d1 == Span(IsSpace, t, i)
        d2 == Span(IsSpace, t, d1 + 1)
        d3 == Span(IsSpace, t, d2 + 1)
    IN  IF /\ At(t, d1) = Cp.dot
           /\ d2 > d1 + 1 /\ At(t, d2) = Cp.dot
           /\ d3 > d2 + 1 /\ At(t, d3) = Cp.dot
        THEN MoreDots(t, d3)
        ELSE 0

Dots3 == <<Cp.dot, Cp.dot, Cp.dot>>
EllipsisRepl(t, i, e) == Dots3

\* \.\.\.\s*(?=\S)
ELLIPSIS_SPACING_PATTERN(t, i) ==
    LET j == Span(IsSpace, t, i + 3)
    IN  IF Lit(t, i, Dots3) /\ j <= Len(t) THEN j - 1 ELSE 0

EllipsisSpacingRepl(t, i, e) == Dots3 \o <<Cp.space>>

_normalize_ellipsis(t) ==
    ReSub(ELLIPSIS_SPACING_PATTERN, EllipsisSpacingRepl,
          ReSub(ELLIPSIS_PATTERN, EllipsisRepl, t))

-----------------------------------------------------------------------------
(* _replace_dash and _fix_emdash_spacing, polish.py:144-197                *)

\* (CJK)\s*-{2,}\s*(CJK)
DASH_PATTERN(t, i) ==
    LET a == Span(IsSpace, t, i + 1)      \* first hyphen
        b == Span(IsHyphen, t, a)         \* after the hyphens
        c == Span(IsSpace, t, b)          \* the following character
    IN  IF /\ CJK_CHARS_PATTERN(t[i])
           /\ b - a >= 2
           /\ c <= Len(t) /\ CJK_CHARS_PATTERN(t[c])
        THEN c ELSE 0

\* repl of _replace_dash and of _fix_emdash_spacing (the same code)
EmdashRepl(t, i, e) ==
    LET before == t[i]
        after == t[e]
        left_space == IF before \in {Cp.fwrparen, 12299} THEN <<>> ELSE <<Cp.space>>
        right_space == IF after \in {Cp.fwlparen, 12298} THEN <<>> ELSE <<Cp.space>>
    IN  <<before>> \o left_space \o CJK_EM_DASH \o right_space \o <<after>>

_replace_dash(t) == ReSub(DASH_PATTERN, EmdashRepl, t)

\* ([^\s])\s*--\s*([^\s])   (-- standing for the em-dash pair)
EMDASH_SPACING_PATTERN(t, i) ==
    LET a == Span(IsSpace, t, i + 1)
        c == Span(IsSpace, t, a + 2)
    IN  IF /\ ~IsSpace(t[i])
           /\ Lit(t, a, CJK_EM_DASH)
           /\ c <= Len(t)
        THEN c ELSE 0

_fix_emdash_spacing(t) == ReSub(EMDASH_SPACING_PATTERN, EmdashRepl, t)

-----------------------------------------------------------------------------
(* _fix_quote_spacing, polish.py:200-292                                   *)

\* The class without the Hangul block
QuoteNeighbourNoKorean(c, brackets) ==
    IsAlnum(c) \/ CJK_NO_KOREAN(c) \/ c \in Chars(brackets) \cup Chars(CJK_TERMINAL_PUNCTUATION)

\* [A-Za-z0-9{CJK_ALL}{brackets}{CJK_TERMINAL_PUNCTUATION}]
QuoteNeighbour(c, brackets) ==
    IsAlnum(c) \/ CJK_ALL(c) \/ c \in Chars(brackets) \cup Chars(CJK_TERMINAL_PUNCTUATION)

\* ([...closing...]|--)opening_quote : the character class is tried first
QuoteBeforePattern(opening_quote, t, i) ==
    IF QuoteNeighbour(t[i], CJK_CLOSING_BRACKETS) /\ At(t, i + 1) = opening_quote
    THEN i + 1
    ELSE IF Lit(t, i, CJK_EM_DASH) /\ At(t, i + 2) = opening_quote
    THEN i + 2
    ELSE 0

\* repl_before: "before in no_space_before" is a substring test, which the
\* two-character em-dash pair never passes
QuoteBeforeRepl(opening_quote, t, i, e) ==
    LET before == SubSeq(t, i, e - 1)
        no_space_before == Chars(CJK_CLOSING_BRACKETS) \cup Chars(CJK_TERMINAL_PUNCTUATION)
    IN  IF Len(before) = 1 /\ before[1] \in no_space_before
        THEN before \o <<opening_quote>>
        ELSE before \o <<Cp.space, opening_quote>>

\* closing_quote([...opening...]|--)
QuoteAfterPattern(closing_quote, t, i) ==
    IF t[i] # closing_quote THEN 0
    ELSE IF i + 1 <= Len(t) /\ QuoteNeighbour(t[i + 1], CJK_OPENING_BRACKETS)
    THEN i + 1
    ELSE IF Lit(t, i + 1, CJK_EM_DASH)
    THEN i + 2
    ELSE 0

QuoteAfterRepl(closing_quote, t, i, e) ==
    LET after == SubSeq(t, i + 1, e)
        no_space_after == Chars(CJK_OPENING_BRACKETS) \cup Chars(CJK_TERMINAL_PUNCTUATION)
    IN  IF Len(after) = 1 /\ after[1] \in no_space_after
        THEN <<closing_quote>> \o after
        ELSE <<closing_quote, Cp.space>> \o after

_fix_quote_spacing(t, opening_quote, closing_quote) ==
    LET mb(s, i) == QuoteBeforePattern(opening_quote, s, i)
        rb(s, i, e) == QuoteBeforeRepl(opening_quote, s, i, e)
        ma(s, i) == QuoteAfterPattern(closing_quote, s, i)
        ra(s, i, e) == QuoteAfterRepl(closing_quote, s, i, e)
    IN  ReSub(ma, ra, ReSub(mb, rb, t))

_fix_quotes(t) == _fix_quote_spacing(t, Cp.ldquo, Cp.rdquo)

_fix_single_quotes(t) == _fix_quote_spacing(t, Cp.lsquo, Cp.rsquo)

-----------------------------------------------------------------------------
(* _fix_cjk_parenthesis_spacing, polish.py:295-315                         *)

\* ([CJK_ALL])\(
CJK_OPENING_PAREN_PATTERN(t, i) ==
    IF CJK_ALL(t[i]) /\ At(t, i + 1) = Cp.lparen THEN i + 1 ELSE 0

CjkOpeningParenRepl(t, i, e) == <<t[i], Cp.space, Cp.lparen>>

\* \)([CJK_ALL])
CLOSING_PAREN_CJK_PATTERN(t, i) ==
    IF t[i] = Cp.rparen /\ i + 1 <= Len(t) /\ CJK_ALL(t[i + 1]) THEN i + 1 ELSE 0

ClosingParenCjkRepl(t, i, e) == <<Cp.rparen, Cp.space, t[e]>>

_fix_cjk_parenthesis_spacing(t) ==
    ReSub(CLOSING_PAREN_CJK_PATTERN, ClosingParenCjkRepl,
          ReSub(CJK_OPENING_PAREN_PATTERN, CjkOpeningParenRepl, t))

-----------------------------------------------------------------------------
(* _normalize_fullwidth_punctuation, polish.py:318-348                     *)

\* half_to_full, in the order the loop visits it: , . ! ? ; :
half_to_full ==
    << <<Cp.comma, 65292>>, <<Cp.dot, 12290>>, <<Cp.bang, 65281>>,
       <<Cp.question, 65311>>, <<Cp.semi, 65307>>, <<Cp.colon, 65306>> >>

\* ([CJK_NO_KOREAN])half([CJK_NO_KOREAN])
PunctBetweenPattern(half, t, i) ==
    IF /\ CJK_NO_KOREAN(t[i])
       /\ At(t, i + 1) = half
       /\ i + 2 <= Len(t) /\ CJK_NO_KOREAN(t[i + 2])
    THEN i + 2 ELSE 0

\* ([CJK_NO_KOREAN])half(?=\s|$) : $ is the end of the text, or the place
\* before a newline that ends it
PunctEndPattern(half, t, i) ==
    IF /\ CJK_NO_KOREAN(t[i])
       /\ At(t, i + 1) = half
       /\ (i + 1 = Len(t) \/ (i + 2 <= Len(t) /\ IsSpace(t[i + 2])))
    THEN i + 1 ELSE 0

RECURSIVE PunctLoop(_, _)
PunctLoop(t, m) ==
    IF m > Len(half_to_full) THEN t
    ELSE LET half == half_to_full[m][1]
             full == half_to_full[m][2]
             mb(s, i) == PunctBetweenPattern(half, s, i)
             rb(s, i, e) == <<s[i], full, s[e]>>
             me(s, i) == PunctEndPattern(half, s, i)
             re(s, i, e) == <<s[i], full>>
         IN  PunctLoop(ReSub(me, re, ReSub(mb, rb, t)), m + 1)

_normalize_fullwidth_punctuation(t) == PunctLoop(t, 1)

-----------------------------------------------------------------------------
(* _normalize_fullwidth_parentheses / _brackets, polish.py:351-362         *)

NotParen(c) == c \notin {Cp.lparen, Cp.rparen}
NotBracket(c) == c \notin {Cp.lbracket, Cp.rbracket}

\* \(([CJK_NO_KOREAN][^()]*)\)
FULLWIDTH_PARENS_PATTERN(t, i) ==
    LET j == Span(NotParen, t, i + 2)
    IN  IF /\ t[i] = Cp.lparen
           /\ i + 1 <= Len(t) /\ CJK_NO_KOREAN(t[i + 1])
           /\ At(t, j) = Cp.rparen
        THEN j ELSE 0

FullwidthParensRepl(t, i, e) ==
    <<Cp.fwlparen>> \o SubSeq(t, i + 1, e - 1) \o <<Cp.fwrparen>>

_normalize_fullwidth_parentheses(t) ==
    ReSub(FULLWIDTH_PARENS_PATTERN, FullwidthParensRepl, t)

\* \[([CJK_NO_KOREAN][^\[\]]*)\]
FULLWIDTH_BRACKETS_PATTERN(t, i) ==
    LET j == Span(NotBracket, t, i + 2)
    IN  IF /\ t[i] = Cp.lbracket
           /\ i + 1 <= Len(t) /\ CJK_NO_KOREAN(t[i + 1])
           /\ At(t, j) = Cp.rbracket
        THEN j ELSE 0

FullwidthBracketsRepl(t, i, e) ==
    <<Cp.fwlbracket>> \o SubSeq(t, i + 1, e - 1) \o <<Cp.fwrbracket>>

_normalize_fullwidth_brackets(t) ==
    ReSub(FULLWIDTH_BRACKETS_PATTERN, FullwidthBracketsRepl, t)

-----------------------------------------------------------------------------
(* _cleanup_consecutive_punctuation, polish.py:365-387                     *)

marks == <<65281, 65311, 12290>>      \* U+FF01 U+FF1F U+3002

\* mark{2,} for limit 1, mark{3,} for limit 2
MarkRunPattern(mark, least, t, i) ==
    LET IsMark(c) == c = mark
        j == Span(IsMark, t, i)
    IN  IF j - i >= least THEN j - 1 ELSE 0

RECURSIVE MarkLoop(_, _, _)
MarkLoop(t, limit, m) ==
    IF m > Len(marks) THEN t
    ELSE LET mark == marks[m]
             m1(s, i) == MarkRunPattern(mark, 2, s, i)
             r1(s, i, e) == <<mark>>
             m2(s, i) == MarkRunPattern(mark, 3, s, i)
             r2(s, i, e) == <<mark, mark>>
         IN  MarkLoop(IF limit = 1 THEN ReSub(m1, r1, t)
                      ELSE IF limit = 2 THEN ReSub(m2, r2, t)
                      ELSE t,
                      limit, m + 1)

_cleanup_consecutive_punctuation(t, limit) ==
    IF limit = 0 THEN t ELSE MarkLoop(t, limit, 1)

-----------------------------------------------------------------------------
(* _normalize_fullwidth_alphanumeric, polish.py:390-406                    *)

FullwidthOffset == 65248      \* 0xFEE0

_normalize_fullwidth_alphanumeric(t) ==
    [ i \in 1..Len(t) |->
        IF \/ (65296 <= t[i] /\ t[i] <= 65305)       \* U+FF10-U+FF19
           \/ (65313 <= t[i] /\ t[i] <= 65338)       \* U+FF21-U+FF3A
           \/ (65345 <= t[i] /\ t[i] <= 65370)       \* U+FF41-U+FF5A
        THEN t[i] - FullwidthOffset
        ELSE t[i] ]

-----------------------------------------------------------------------------
(* _fix_currency_spacing and _fix_slash_spacing, polish.py:409-421         *)

\* The character class [$ U+A5 U+20AC U+A3 U+20B9 USD|CNY|EUR|GBP]: inside
\* the brackets the code letters and the bars are single characters.
CurrencyClass ==
    { Cp.dollar, Cp.yen, Cp.euro, Cp.pound, Cp.rupee, Cp.bar,
      85, 83, 68, 67, 78, 89, 69, 82, 71, 66, 80 }   \* U S D C N Y E R G B P

\* ([...])\s+(\d)
CURRENCY_SPACING_PATTERN(t, i) ==
    LET j == Span(IsSpace, t, i + 1)
    IN  IF /\ t[i] \in CurrencyClass
           /\ j > i + 1
           /\ j <= Len(t) /\ IsDigit(t[j])
        THEN j ELSE 0

CurrencySpacingRepl(t, i, e) == <<t[i], t[e]>>

_fix_currency_spacing(t) == ReSub(CURRENCY_SPACING_PATTERN, CurrencySpacingRepl, t)

\* (?<![/:])\s*/\s*(?!/) : when a slash follows the trailing whitespace, the
\* greedy \s* gives one character back so that the lookahead sees whitespace
SLASH_SPACING_PATTERN(t, i) ==
    LET a == Span(IsSpace, t, i)          \* the slash
        b == Span(IsSpace, t, a + 1)      \* after the trailing whitespace
    IN  IF \/ At(t, i - 1) \in {Cp.slash, Cp.colon}
           \/ At(t, a) # Cp.slash
        THEN 0
        ELSE IF At(t, b) # Cp.slash THEN b - 1
        ELSE IF b > a + 1 THEN b - 2
        ELSE 0

SlashSpacingRepl(t, i, e) == <<Cp.slash>>

_fix_slash_spacing(t) == ReSub(SLASH_SPACING_PATTERN, SlashSpacingRepl, t)

-----------------------------------------------------------------------------
(* _space_between, polish.py:424-448                                       *)

CurrencySymbols == {Cp.dollar, Cp.yen, Cp.euro, Cp.pound, Cp.rupee}
UnitSigns == {Cp.percent, Cp.permille, Cp.celsius, Cp.fahrenheit}
DegreeLetters == {67, 99, 70, 102}                    \* C c F f
CurrencyCodes ==                                      \* USD CNY EUR GBP RMB
    { <<85, 83, 68>>, <<67, 78, 89>>, <<69, 85, 82>>, <<71, 66, 80>>, <<82, 77, 66>> }

IsCode(t, i) == \E code \in CurrencyCodes : Lit(t, i, code)

\* Where [A-Za-z0-9]+ starts when alphanum_pattern starts at s: after the
\* optional (?:[$...][ ]?), or 0 when the pattern cannot start at s.
AlnumStart(t, s) ==
    LET p == IF At(t, s) \in CurrencySymbols
             THEN (IF At(t, s + 1) = Cp.space THEN s + 2 ELSE s + 1)
             ELSE s
    IN  IF p <= Len(t) /\ IsAlnum(t[p]) THEN p ELSE 0

\* The last character of the greedy match of alphanum_pattern at s (0: none):
\* (?:[$...][ ]?)?[A-Za-z0-9]+(?:[%...]|deg[CcFf]?|[ ]?(?:USD|CNY|EUR|GBP|RMB))?
AlphanumEnd(t, s) ==
    LET p == AlnumStart(t, s)
        q == Span(IsAlnum, t, p)
    IN  IF p = 0 THEN 0
        ELSE IF At(t, q) \in UnitSigns THEN q
        ELSE IF At(t, q) = Cp.degree
             THEN (IF At(t, q + 1) \in DegreeLetters THEN q + 1 ELSE q)
        ELSE IF At(t, q) = Cp.space /\ IsCode(t, q + 1) THEN q + 3
        ELSE q - 1

\* ([CJK_ALL])(alphanum_pattern)
CjkThenAlnumPattern(t, i) ==
    IF CJK_ALL(t[i]) THEN AlphanumEnd(t, i + 1) ELSE 0

CjkThenAlnumRepl(t, i, e) == <<t[i], Cp.space>> \o SubSeq(t, i + 1, e)

\* (alphanum_pattern)([CJK_ALL]): the pattern backtracks until a CJK
\* character follows it; the run [A-Za-z0-9]+ cannot end before its last
\* character, because what follows must be a suffix or the CJK character.
AlnumThenCjkPattern(t, i) ==
    LET p == AlnumStart(t, i)
        q == Span(IsAlnum, t, p)
        IsCjkAt(j) == j <= Len(t) /\ CJK_ALL(t[j])
    IN  IF p = 0 THEN 0
        ELSE IF IsCjkAt(q) THEN q
        ELSE IF At(t, q) \in UnitSigns /\ IsCjkAt(q + 1) THEN q + 1
        ELSE IF At(t, q) = Cp.degree /\ At(t, q + 1) \in DegreeLetters /\ IsCjkAt(q + 2)
             THEN q + 2
        ELSE IF At(t, q) = Cp.degree /\ IsCjkAt(q + 1) THEN q + 1
        ELSE IF At(t, q) = Cp.space /\ IsCode(t, q + 1) /\ IsCjkAt(q + 4) THEN q + 4
        ELSE 0

AlnumThenCjkRepl(t, i, e) == SubSeq(t, i, e - 1) \o <<Cp.space, t[e]>>

\* The spacing after CJK characters alone, the first re.sub of _space_between
space_after_cjk(t) == ReSub(CjkThenAlnumPattern, CjkThenAlnumRepl, t)

_space_between(t) ==
    ReSub(AlnumThenCjkPattern, AlnumThenCjkRepl,
          ReSub(CjkThenAlnumPattern, CjkThenAlnumRepl, t))

-----------------------------------------------------------------------------
(* The whitespace patterns, polish.py:49-51, and str.rstrip                *)

\* A pattern for two spaces and no more after the character
MULTI_SPACE_TWO_PATTERN(t, i) ==
    IF ~IsSpace(t[i]) /\ Lit(t, i + 1, <<Cp.space, Cp.space>>) THEN i + 2 ELSE 0

\* (\S) {2,}
MULTI_SPACE_PATTERN(t, i) ==
    LET j == Span(IsBlank, t, i + 1)
    IN  IF ~IsSpace(t[i]) /\ j - (i + 1) >= 2 THEN j - 1 ELSE 0

MultiSpaceRepl(t, i, e) == <<t[i], Cp.space>>

\* " +$" with re.MULTILINE: $ is the end of the text or the place before a \n
TRAILING_SPACE_PATTERN(t, i) ==
    LET j == Span(IsBlank, t, i)
    IN  IF j > i /\ (j > Len(t) \/ t[j] = Cp.nl) THEN j - 1 ELSE 0

Nothing(t, i, e) == <<>>

\* A pattern for three newlines and no more
THREE_NEWLINES_PATTERN(t, i) ==
    IF Lit(t, i, <<Cp.nl, Cp.nl, Cp.nl>>) THEN i + 2 ELSE 0

\* \n{3,}
EXCESSIVE_NEWLINE_PATTERN(t, i) ==
    LET j == Span(IsNewline, t, i)
    IN  IF j - i >= 3 THEN j - 1 ELSE 0

TwoNewlines(t, i, e) == <<Cp.nl, Cp.nl>>

CollapseNewlines(t) == ReSub(EXCESSIVE_NEWLINE_PATTERN, TwoNewlines, t)

\* text.rstrip()
rstrip(t) ==
    LET keep == { i \in 1..Len(t) : ~IsSpace(t[i]) }
    IN  IF keep = {} THEN <<>>
        ELSE SubSeq(t, 1, CHOOSE i \in keep : \A j \in keep : j <= i)

\* text.strip() == ''
IsBlankText(t) == \A i \in 1..Len(t) : IsSpace(t[i])

-----------------------------------------------------------------------------
(* RuleConfig, config.py:20-90                                             *)

DEFAULT_RULES ==
    [ ellipsis_normalization |-> TRUE, dash_conversion |-> TRUE,
      emdash_spacing |-> TRUE, quote_spacing |-> TRUE,
      single_quote_spacing |-> TRUE, cjk_english_spacing |-> TRUE,
      cjk_parenthesis_spacing |-> TRUE, space_collapsing |-> TRUE,
      fullwidth_punctuation |-> TRUE, fullwidth_parentheses |-> TRUE,
      fullwidth_brackets |-> FALSE, fullwidth_alphanumeric |-> TRUE,
      consecutive_punctuation_limit |-> 0, currency_spacing |-> TRUE,
      slash_spacing |-> TRUE ]

\* A lookup that takes every rule for enabled
enabled_whatever(r, rule_name) == TRUE

\* self.rules.get(rule_name, True)
is_enabled(r, rule_name) ==
    IF rule_name \in DOMAIN r THEN r[rule_name] ELSE TRUE

\* self.rules.get(rule_name, default)
get_value(r, rule_name, default) ==
    IF rule_name \in DOMAIN r THEN r[rule_name] ELSE default

-----------------------------------------------------------------------------
(* The custom rule engine, polish.py:540-559                               *)
(*                                                                         *)
(* An entry of custom_rules is a value of some type; a dict has keys, and  *)
(* its 'pattern' and 'replacement' are values of some type.  The patterns  *)
(* of this model are literal strings, and the source "(?P<invalid" of the  *)
(* tests, which does not compile.                                          *)

Metachars == {36, 40, 41, 42, 43, 46, 63, 91, 92, 93, 94, 123, 124, 125}

\* re.compile(source) succeeds: a source with no special character is the
\* literal pattern; the one source with special characters is unterminated
Compiles(source) == Chars(source) \cap Metachars = {}

\* the replacement template parses: no group reference (the patterns have
\* no groups, so \1 is "invalid group reference")
TemplateValid(template) == 92 \notin Chars(template)

\* The exception re.sub(pattern, replacement, text) raises, or "none":
\* the pattern is compiled first, then the template is parsed.
SubException(pattern, replacement) ==
    IF pattern.type # "str" THEN "TypeError"
    ELSE IF ~Compiles(pattern.val) THEN "re.error"
    ELSE IF replacement.type # "str" THEN "TypeError"
    ELSE IF ~TemplateValid(replacement.val) THEN "re.error"
    ELSE "none"

\* The exception one iteration of the loop body raises for rule, or "none"
RuleException(rule) ==
    IF rule.type # "dict" THEN "TypeError"          \* rule['pattern']
    ELSE IF "pattern" \notin rule.keys THEN "KeyError"
    ELSE IF "replacement" \notin rule.keys THEN "KeyError"
    ELSE SubException(rule.pattern, rule.replacement)

\* re.sub(pattern, replacement, text) for a literal pattern and template
LiteralSub(pattern, replacement, t) ==
    LET m(s, i) == IF Lit(s, i, pattern) THEN i + Len(pattern) - 1 ELSE 0
        r(s, i, e) == replacement
    IN  ReSub(m, r, t)

\* A handler that lets re.error through
CaughtKeyErrorOnly == {"KeyError"}

\* except (KeyError, re.error): continue
Caught == {"KeyError", "re.error"}

\* One iteration of the loop of _apply_custom_rules on the text t:
\* the text after it, and the exception that leaves the loop ("none": none).
ApplyCustomRule(rule, t) ==
    LET exc == RuleException(rule)
    IN  IF exc = "none"
        THEN [raised |-> "none", text |-> LiteralSub(rule.pattern.val, rule.replacement.val, t)]
        ELSE IF exc \in Caught THEN [raised |-> "none", text |-> t]
        ELSE [raised |-> exc, text |-> t]

\* for rule in custom_rules: ... ; run[j] is the outcome after j iterations
_apply_custom_rules(t, custom_rules) ==
    LET run[j \in 0..Len(custom_rules)] ==
            IF j = 0 THEN [raised |-> "none", text |-> t]
            ELSE IF run[j - 1].raised # "none" THEN run[j - 1]
            ELSE ApplyCustomRule(custom_rules[j], run[j - 1].text)
    IN  run[Len(custom_rules)]

-----------------------------------------------------------------------------
(* polish_text, polish.py:451-537                                          *)

\* The rules of the "if contains_cjk(text):" block, in the order of the code
CjkBlock ==
    << "fullwidth_alphanumeric", "fullwidth_punctuation", "fullwidth_brackets",
       "dash_conversion", "emdash_spacing", "quote_spacing",
       "single_quote_spacing", "cjk_english_spacing", "cjk_parenthesis_spacing",
       "fullwidth_parentheses", "currency_spacing", "slash_spacing",
       "consecutive_punctuation_limit", "space_collapsing", "trailing_space" >>

\* One statement of polish_text: the rule applied when the config enables it.
\* Evaluated(t) holds of every text: testing it first evaluates the text the
\* statement starts from before the rule is entered, as Python does.
Evaluated(t) == Len(t) >= 0

Stage(name, t, r) ==
    IF ~Evaluated(t) THEN t ELSE
    CASE name = "ellipsis_normalization" ->
            IF is_enabled(r, name) THEN _normalize_ellipsis(t) ELSE t
      [] name = "fullwidth_alphanumeric" ->
            IF is_enabled(r, name) THEN _normalize_fullwidth_alphanumeric(t) ELSE t
      [] name = "fullwidth_punctuation" ->
            IF is_enabled(r, name) THEN _normalize_fullwidth_punctuation(t) ELSE t
      [] name = "fullwidth_brackets" ->
            IF is_enabled(r, name) THEN _normalize_fullwidth_brackets(t) ELSE t
      [] name = "dash_conversion" ->
            IF is_enabled(r, name) THEN _replace_dash(t) ELSE t
      [] name = "emdash_spacing" ->
            IF is_enabled(r, name) THEN _fix_emdash_spacing(t) ELSE t
      [] name = "quote_spacing" ->
            IF is_enabled(r, name) THEN _fix_quotes(t) ELSE t
      [] name = "single_quote_spacing" ->
            IF is_enabled(r, name) THEN _fix_single_quotes(t) ELSE t
      [] name = "cjk_english_spacing" ->
            IF is_enabled(r, name) THEN _space_between(t) ELSE t
      [] name = "cjk_parenthesis_spacing" ->
            IF is_enabled(r, name) THEN _fix_cjk_parenthesis_spacing(t) ELSE t
      [] name = "fullwidth_parentheses" ->
            IF is_enabled(r, name) THEN _normalize_fullwidth_parentheses(t) ELSE t
      [] name = "currency_spacing" ->
            IF is_enabled(r, name) THEN _fix_currency_spacing(t) ELSE t
      [] name = "slash_spacing" ->
            IF is_enabled(r, name) THEN _fix_slash_spacing(t) ELSE t
      [] name = "consecutive_punctuation_limit" ->
            LET punct_limit == get_value(r, name, 0)
            IN  IF punct_limit > 0
                THEN _cleanup_consecutive_punctuation(t, punct_limit) ELSE t
      [] name = "space_collapsing" ->
            IF is_enabled(r, name) THEN ReSub(MULTI_SPACE_PATTERN, MultiSpaceRepl, t) ELSE t
      [] name = "trailing_space" -> ReSub(TRAILING_SPACE_PATTERN, Nothing, t)
      [] name = "excessive_newline" -> CollapseNewlines(t)

\* The statements of polish_text before the custom rules, in the order of
\* the code (lines 478-532)
Statements ==
    <<"ellipsis_normalization", "contains_cjk">> \o CjkBlock \o <<"excessive_newline">>

\* The statement j of a run of polish_text on the outcome prev of the
\* statements before it: a built-in statement, then one iteration of the loop
\* of _apply_custom_rules for each custom rule, then text.rstrip().  The field
\* cjk holds what contains_cjk returned at the "if".
Step(j, prev, r, custom_rules) ==
    IF prev.raised # "none" THEN prev
    ELSE IF j <= Len(Statements)
    THEN IF Statements[j] = "contains_cjk"
         THEN [prev EXCEPT !.cjk = contains_cjk(prev.text)]
         ELSE IF (\E m \in 1..Len(CjkBlock) : CjkBlock[m] = Statements[j]) /\ ~prev.cjk
         THEN prev
         ELSE [prev EXCEPT !.text = Stage(Statements[j], prev.text, r)]
    ELSE IF j <= Len(Statements) + Len(custom_rules)
    THEN [prev EXCEPT
            !.raised = ApplyCustomRule(custom_rules[j - Len(Statements)], prev.text).raised,
            !.text = ApplyCustomRule(custom_rules[j - Len(Statements)], prev.text).text]
    ELSE [prev EXCEPT !.text = rstrip(prev.text)]

\* polish_text(t, config) after its first n statements
PolishRun(t, r, custom_rules, n) ==
    LET run[j \in 0..n] ==
            IF j = 0 THEN [raised |-> "none", text |-> t, cjk |-> FALSE]
            ELSE Step(j, run[j - 1], r, custom_rules)
    IN  run[n]

\* polish_text up to and including the newline collapsing (lines 478-532)
BuiltinRules(t, r) == PolishRun(t, r, <<>>, Len(Statements)).text

\* The body of "if contains_cjk(text):", lines 484-528
CjkRules(t, r) ==
    LET run[j \in 0..Len(CjkBlock)] ==
            IF j = 0 THEN t ELSE Stage(CjkBlock[j], run[j - 1], r)
    IN  run[Len(CjkBlock)]

\* polish_text(text, config): the exception that leaves it, and its result
PolishOutcome(t, r, custom_rules) ==
    PolishRun(t, r, custom_rules, Len(Statements) + Len(custom_rules) + 1)

polish_text(t, r, custom_rules) == PolishOutcome(t, r, custom_rules).text

-----------------------------------------------------------------------------
(* Inputs.                                                                 *)

\* The texts made of at most n pieces of the set P, joined.
RECURSIVE TextsOf(_, _)
TextsOf(P, n) ==
    IF n = 0 THEN {<<>>}
    ELSE LET S == TextsOf(P, n - 1)
         IN  S \cup { s \o p : s \in S, p \in P }

\* The lists of at most n elements of the set S.
RECURSIVE ListsOf(_, _)
ListsOf(S, n) ==
    IF n = 0 THEN {<<>>}
    ELSE LET L == ListsOf(S, n - 1)
         IN  L \cup { Append(l, x) : l \in L, x \in S }

StrVal(v) == [type |-> "str", val |-> v]
IntVal == [type |-> "int", val |-> <<>>]

\* {'name': ..., 'pattern': pattern, 'replacement': replacement}
DictRule(name, pattern, replacement) ==
    [type |-> "dict", name |-> name, keys |-> {"name", "pattern", "replacement"},
     pattern |-> pattern, replacement |-> replacement]

\* test_polish_with_config.py:129-137, ' ' -> '_'
space_to_underscore == DictRule("space_to_underscore", StrVal(<<Cp.space>>), StrVal(<<Cp.underscore>>))
\* '_' -> '-'
underscore_to_hyphen == DictRule("underscore_to_hyphen", StrVal(<<Cp.underscore>>), StrVal(<<Cp.hyphen>>))
\* test_polish_with_config.py:223-229, pattern '(?P<invalid'
bad_rule ==
    DictRule("bad_rule", StrVal(<<40, 63, 80, 60, 105, 110, 118, 97, 108, 105, 100>>), StrVal(<<120>>))
\* test_polish_with_config.py:240-244, a dict with a name only
incomplete ==
    [type |-> "dict", name |-> "incomplete", keys |-> {"name"},
     pattern |-> IntVal, replacement |-> IntVal]
\* a dict without 'replacement'
no_replacement ==
    [type |-> "dict", name |-> "no_replacement", keys |-> {"name", "pattern"},
     pattern |-> StrVal(<<Cp.space>>), replacement |-> IntVal]
\* replacement '\1' for a pattern without groups
bad_template == DictRule("bad_template", StrVal(<<Cp.space>>), StrVal(<<92, 49>>))
\* pattern = 5, as TOML allows
int_pattern == DictRule("int_pattern", IntVal, StrVal(<<Cp.underscore>>))
\* replacement = 5
int_replacement == DictRule("int_replacement", StrVal(<<Cp.space>>), IntVal)
\* an entry that is a string, not a table
not_a_mapping ==
    [type |-> "str", name |-> "", keys |-> {}, pattern |-> IntVal, replacement |-> IntVal]

-----------------------------------------------------------------------------
(* PolishStats, polish.py:54-64: of its counters the two that              *)
(* polish_text_verbose computes with code of its own, emdash_spacing_fixed *)
(* and custom_rules_applied (a dict from rule names to counts).            *)

PolishStats == [emdash_spacing_fixed |-> 0, custom_rules_applied |-> <<>>]

-----------------------------------------------------------------------------
(* polish_text as a process: one action per statement of polish.py:478-537 *)

Idle ==
    /\ result = FALSE
    /\ code_blocks = <<>>
    /\ lines = <<>>
    /\ processed_lines = <<>>
    /\ in_indented_code = FALSE
    /\ fed = <<>>
    /\ bs4_available = FALSE
    /\ doc = <<>>
    /\ soup = <<>>
    /\ base = <<>>
    /\ override = <<>>
    /\ stats = PolishStats

VerboseFrame ==
    <<result, code_blocks, lines, processed_lines, in_indented_code, fed,
      bs4_available, doc, soup, base, override>>

AdapterVars ==
    <<result, code_blocks, lines, processed_lines, in_indented_code, fed,
      bs4_available, doc, soup, base, override, stats>>

\* polish_text(t, RuleConfig(rules=r, custom_rules=c)) is called
PolishInit(texts, configs, customs) ==
    /\ call = "polish_text"
    /\ input \in texts
    /\ rules \in configs
    /\ custom \in customs
    /\ text = input
    /\ pc = "ellipsis_normalization"
    /\ k = 1
    /\ log = <<>>
    /\ raised = "none"
    /\ pass = 1
    /\ first = <<>>
    /\ Idle

\* The statement of the rule name, then the statement next
Rule(name, next) ==
    /\ call = "polish_text"
    /\ pc = name
    /\ text' = Stage(name, text, rules)
    /\ pc' = next
    /\ log' = Append(log, name)
    /\ UNCHANGED <<call, input, rules, custom, k, raised, pass, first, AdapterVars>>

EllipsisNormalization == Rule("ellipsis_normalization", "contains_cjk")

\* if contains_cjk(text):
Gate ==
    /\ call = "polish_text"
    /\ pc = "contains_cjk"
    /\ pc' = IF contains_cjk(text) THEN "fullwidth_alphanumeric" ELSE "excessive_newline"
    /\ log' = Append(log, "contains_cjk")
    /\ UNCHANGED <<call, input, rules, custom, text, k, raised, pass, first, AdapterVars>>

FullwidthAlphanumeric == Rule("fullwidth_alphanumeric", "fullwidth_punctuation")
FullwidthPunctuation == Rule("fullwidth_punctuation", "fullwidth_brackets")
FullwidthBrackets == Rule("fullwidth_brackets", "dash_conversion")
DashConversion == Rule("dash_conversion", "emdash_spacing")
EmdashSpacing == Rule("emdash_spacing", "quote_spacing")
QuoteSpacing == Rule("quote_spacing", "single_quote_spacing")
SingleQuoteSpacing == Rule("single_quote_spacing", "cjk_english_spacing")
CjkEnglishSpacing == Rule("cjk_english_spacing", "cjk_parenthesis_spacing")
CjkParenthesisSpacing == Rule("cjk_parenthesis_spacing", "fullwidth_parentheses")
FullwidthParentheses == Rule("fullwidth_parentheses", "currency_spacing")
CurrencySpacing == Rule("currency_spacing", "slash_spacing")
SlashSpacing == Rule("slash_spacing", "consecutive_punctuation_limit")
ConsecutivePunctuationLimit == Rule("consecutive_punctuation_limit", "space_collapsing")
SpaceCollapsing == Rule("space_collapsing", "trailing_space")
TrailingSpace == Rule("trailing_space", "excessive_newline")
ExcessiveNewline == Rule("excessive_newline", "custom_rules")

\* The loop taken from the last rule to the first
CustomRuleBackwards ==
    /\ call = "polish_text"
    /\ pc = "custom_rules"
    /\ k <= Len(custom)
    /\ LET o == ApplyCustomRule(custom[Len(custom) + 1 - k], text)
       IN  /\ text' = o.text
           /\ raised' = o.raised
           /\ pc' = IF o.raised = "none" THEN "custom_rules" ELSE "raised"
    /\ k' = k + 1
    /\ log' = Append(log, "custom_rule")
    /\ UNCHANGED <<call, input, rules, custom, pass, first, AdapterVars>>

\* One iteration of "for rule in custom_rules:" (_apply_custom_rules)
CustomRule ==
    /\ call = "polish_text"
    /\ pc = "custom_rules"
    /\ k <= Len(custom)
    /\ LET o == ApplyCustomRule(custom[k], text)
       IN  /\ text' = o.text
           /\ raised' = o.raised
           /\ pc' = IF o.raised = "none" THEN "custom_rules" ELSE "raised"
    /\ k' = k + 1
    /\ log' = Append(log, "custom_rule")
    /\ UNCHANGED <<call, input, rules, custom, pass, first, AdapterVars>>

\* return text.rstrip()
Trim ==
    /\ call = "polish_text"
    /\ pc = "custom_rules"
    /\ k > Len(custom)
    /\ text' = rstrip(text)
    /\ pc' = "done"
    /\ log' = Append(log, "rstrip")
    /\ UNCHANGED <<call, input, rules, custom, k, raised, pass, first, AdapterVars>>

\* polish_text is called again, on the text it returned
Again ==
    /\ call = "polish_text"
    /\ pc = "done"
    /\ pass = 1
    /\ first' = text
    /\ pass' = 2
    /\ pc' = "ellipsis_normalization"
    /\ k' = 1
    /\ log' = <<>>
    /\ UNCHANGED <<call, input, rules, custom, text, raised, AdapterVars>>

NextCjkRules ==
    \/ FullwidthAlphanumeric \/ FullwidthPunctuation \/ FullwidthBrackets
    \/ DashConversion \/ EmdashSpacing \/ QuoteSpacing \/ SingleQuoteSpacing
    \/ CjkEnglishSpacing \/ CjkParenthesisSpacing \/ FullwidthParentheses
    \/ CurrencySpacing \/ SlashSpacing \/ ConsecutivePunctuationLimit
    \/ SpaceCollapsing \/ TrailingSpace

NextBuiltin ==
    \/ EllipsisNormalization \/ Gate \/ NextCjkRules \/ ExcessiveNewline \/ Trim

-----------------------------------------------------------------------------
(* MarkdownProcessor.process, processors.py:69-131                         *)

\* str(n)
RECURSIVE Decimal(_)
Decimal(n) == IF n < 10 THEN <<48 + n>> ELSE Decimal(n \div 10) \o <<48 + (n % 10)>>

Underscores3 == <<95, 95, 95>>
\* "___CODE_BLOCK_"
CODE_BLOCK == Underscores3 \o <<67, 79, 68, 69, 95, 66, 76, 79, 67, 75, 95>>
\* "___HTML_CODE_"
HTML_CODE == Underscores3 \o <<72, 84, 77, 76, 95, 67, 79, 68, 69, 95>>

\* f"___CODE_BLOCK_{i}___", f"___HTML_CODE_{i}___"
Placeholder(prefix, i) == prefix \o Decimal(i) \o Underscores3

\* The starts of the matches that pattern.sub visits in t, left to right
MatchStarts(M(_, _), t) ==
    LET g[pos \in 1..(Len(t) + 1)] ==
            LET i == NextMatch(M, t, pos)
            IN  IF i = 0 THEN <<>> ELSE <<i>> \o g[M(t, i) + 1]
    IN  g[1]

\* re.sub(pattern, save_code, t): each match is appended to the list saved
\* and replaced by the placeholder that carries its index in the list.
SaveCode(M(_, _), prefix, t, saved) ==
    LET starts == MatchStarts(M, t)
        m == Len(starts)
        End(j) == IF j = 0 THEN 0 ELSE M(t, starts[j])
        h[j \in 0..m] ==
            IF j = 0 THEN <<>>
            ELSE h[j - 1] \o SubSeq(t, End(j - 1) + 1, starts[j] - 1)
                          \o Placeholder(prefix, Len(saved) + j - 1)
    IN  [text |-> h[m] \o SubSeq(t, End(m) + 1, Len(t)),
         code_blocks |-> saved \o [j \in 1..m |-> SubSeq(t, starts[j], End(j))]]

Backticks3 == <<Cp.backtick, Cp.backtick, Cp.backtick>>

\* r'```[\s\S]*?```'
FencedPattern(t, i) ==
    IF ~Lit(t, i, Backticks3) THEN 0
    ELSE LET closes == { j \in (i + 3)..Len(t) : Lit(t, j, Backticks3) }
         IN  IF closes = {} THEN 0
             ELSE (CHOOSE j \in closes : \A j2 \in closes : j <= j2) + 2

NotBacktickOrNewline(c) == c # Cp.backtick /\ c # Cp.nl

\* r'`[^`\n]+?`'
InlinePattern(t, i) ==
    IF At(t, i) # Cp.backtick THEN 0
    ELSE LET j == Span(NotBacktickOrNewline, t, i + 1)
         IN  IF j > i + 1 /\ At(t, j) = Cp.backtick THEN j ELSE 0

\* text.split('\n')
Split(t, sep) ==
    LET seps == { i \in 1..Len(t) : t[i] = sep }
        m == Cardinality(seps)
        cut[j \in 0..(m + 1)] ==
            IF j = 0 THEN 0
            ELSE IF j = m + 1 THEN Len(t) + 1
            ELSE CHOOSE i \in seps : Cardinality({ x \in seps : x < i }) = j - 1
    IN  [j \in 1..(m + 1) |-> SubSeq(t, cut[j - 1] + 1, cut[j] - 1)]

\* sep.join(parts)
Join(parts, sep) ==
    LET h[j \in 0..Len(parts)] ==
            IF j = 0 THEN <<>>
            ELSE IF j = 1 THEN parts[1]
            ELSE h[j - 1] \o <<sep>> \o parts[j]
    IN  h[Len(parts)]

\* line.startswith('    ') alone
starts_with_spaces(line) == Lit(line, 1, <<Cp.space, Cp.space, Cp.space, Cp.space>>)

\* line.startswith('    ') or line.startswith('\t')
is_code_line(line) ==
    Lit(line, 1, <<Cp.space, Cp.space, Cp.space, Cp.space>>) \/ Lit(line, 1, <<Cp.tab>>)

\* text.replace(old, new)
Replace(t, old, new) == LiteralSub(old, new, t)

MarkdownInit(texts, configs, customs) ==
    /\ call = "MarkdownProcessor.process"
    /\ input \in texts
    /\ rules \in configs
    /\ custom \in customs
    /\ text = input
    /\ pc = "save_fenced"
    /\ k = 1
    /\ log = <<>>
    /\ raised = "none"
    /\ pass = 1
    /\ first = <<>>
    /\ Idle

PolishVars == <<log, pass, first, result, base, override, stats>>
HtmlVars == <<bs4_available, doc, soup>>

\* text = re.sub(r'```[\s\S]*?```', save_code, text)
SaveFenced ==
    /\ call = "MarkdownProcessor.process"
    /\ pc = "save_fenced"
    /\ LET o == SaveCode(FencedPattern, CODE_BLOCK, text, code_blocks)
       IN  text' = o.text /\ code_blocks' = o.code_blocks
    /\ pc' = "save_inline"
    /\ UNCHANGED <<call, input, rules, custom, k, raised, lines, processed_lines,
                   in_indented_code, fed, PolishVars, HtmlVars>>

\* text = re.sub(r'`[^`\n]+?`', save_code, text)
SaveInline ==
    /\ call = "MarkdownProcessor.process"
    /\ pc = "save_inline"
    /\ LET o == SaveCode(InlinePattern, CODE_BLOCK, text, code_blocks)
       IN  text' = o.text /\ code_blocks' = o.code_blocks
    /\ pc' = "split"
    /\ UNCHANGED <<call, input, rules, custom, k, raised, lines, processed_lines,
                   in_indented_code, fed, PolishVars, HtmlVars>>

\* lines = text.split('\n'); processed_lines = []; in_indented_code = False
SplitLines ==
    /\ call = "MarkdownProcessor.process"
    /\ pc = "split"
    /\ lines' = Split(text, Cp.nl)
    /\ processed_lines' = <<>>
    /\ in_indented_code' = FALSE
    /\ k' = 1
    /\ pc' = "lines"
    /\ UNCHANGED <<call, input, rules, custom, text, raised, code_blocks, fed,
                   PolishVars, HtmlVars>>

\* One iteration of "for line in lines:"
ProcessLine ==
    /\ call = "MarkdownProcessor.process"
    /\ pc = "lines"
    /\ k <= Len(lines)
    /\ in_indented_code' =
           IF is_code_line(lines[k]) /\ ~in_indented_code THEN TRUE
           ELSE IF ~is_code_line(lines[k]) /\ ~IsBlankText(lines[k]) /\ in_indented_code
           THEN FALSE
           ELSE in_indented_code
    /\ IF ~in_indented_code' /\ ~is_code_line(lines[k])
       THEN /\ fed' = Append(fed, lines[k])
            /\ \E o \in {PolishOutcome(lines[k], rules, custom)} :
                  /\ raised' = o.raised
                  /\ IF o.raised = "none"
                     THEN processed_lines' = Append(processed_lines, o.text) /\ pc' = "lines"
                     ELSE processed_lines' = processed_lines /\ pc' = "raised"
       ELSE /\ processed_lines' = Append(processed_lines, lines[k])
            /\ UNCHANGED <<fed, raised, pc>>
    /\ k' = k + 1
    /\ UNCHANGED <<call, input, rules, custom, text, code_blocks, lines,
                   PolishVars, HtmlVars>>

\* text = '\n'.join(processed_lines)
JoinLines ==
    /\ call = "MarkdownProcessor.process"
    /\ pc = "lines"
    /\ k > Len(lines)
    /\ text' = Join(processed_lines, Cp.nl)
    /\ pc' = "newlines"
    /\ UNCHANGED <<call, input, rules, custom, k, raised, code_blocks, lines,
                   processed_lines, in_indented_code, fed, PolishVars, HtmlVars>>

\* text = EXCESSIVE_NEWLINE_PATTERN.sub("\n\n", text)
MarkdownNewlines ==
    /\ call = "MarkdownProcessor.process"
    /\ pc = "newlines"
    /\ text' = CollapseNewlines(text)
    /\ k' = 1
    /\ pc' = "restore"
    /\ UNCHANGED <<call, input, rules, custom, raised, code_blocks, lines,
                   processed_lines, in_indented_code, fed, PolishVars, HtmlVars>>

\* One iteration of "for i, code_block in enumerate(code_blocks):", i = k - 1
RestoreCodeBlock ==
    /\ call = "MarkdownProcessor.process"
    /\ pc = "restore"
    /\ k <= Len(code_blocks)
    /\ text' = Replace(text, Placeholder(CODE_BLOCK, k - 1), code_blocks[k])
    /\ k' = k + 1
    /\ UNCHANGED <<call, input, rules, custom, pc, raised, code_blocks, lines,
                   processed_lines, in_indented_code, fed, PolishVars, HtmlVars>>

\* return text
MarkdownReturn ==
    /\ call = "MarkdownProcessor.process"
    /\ pc = "restore"
    /\ k > Len(code_blocks)
    /\ pc' = "done"
    /\ UNCHANGED <<call, input, rules, custom, text, k, raised, code_blocks, lines,
                   processed_lines, in_indented_code, fed, PolishVars, HtmlVars>>

NextMarkdown ==
    \/ SaveFenced \/ SaveInline \/ SplitLines \/ ProcessLine \/ JoinLines
    \/ MarkdownNewlines \/ RestoreCodeBlock \/ MarkdownReturn

-----------------------------------------------------------------------------
(* HTMLProcessor, processors.py:134-231                                    *)

\* A node of the tree that html.parser builds: a NavigableString or a Tag
TextNode(string) ==
    [kind |-> "text", name |-> "", attrs |-> <<>>, text |-> string, children |-> <<>>]
Tag(name, attrs, children) ==
    [kind |-> "tag", name |-> name, attrs |-> attrs, text |-> <<>>, children |-> children]

\* The letters of the tag names
TagChars ==
    [ p |-> <<112>>, div |-> <<100, 105, 118>>, body |-> <<98, 111, 100, 121>>,
      code |-> <<99, 111, 100, 101>>, pre |-> <<112, 114, 101>>,
      script |-> <<115, 99, 114, 105, 112, 116>>, style |-> <<115, 116, 121, 108, 101>> ]

\* str(soup): the document written out again; the texts of the documents
\* hold no character that the formatter escapes
RECURSIVE Serialize(_)
Serialize(nodes) ==
    LET One(n) ==
            IF n.kind = "text" THEN n.text
            ELSE <<Cp.lt>> \o TagChars[n.name] \o n.attrs \o <<Cp.gt>>
                 \o Serialize(n.children)
                 \o <<Cp.lt, Cp.slash>> \o TagChars[n.name] \o <<Cp.gt>>
        h[j \in 0..Len(nodes)] == IF j = 0 THEN <<>> ELSE h[j - 1] \o One(nodes[j])
    IN  h[Len(nodes)]

\* skip_tags = {'code', 'pre', 'script', 'style'}
skip_tags == {"code", "pre", "script", "style"}

\* if child.string and child.string.strip():
IsProcessed(child) == child.kind = "text" /\ ~IsBlankText(child.text)

\* process_element(element): the element after the walk
RECURSIVE process_element(_, _, _)
process_element(element, r, c) ==
    IF element.name \in skip_tags THEN element
    ELSE [element EXCEPT !.children =
            [j \in 1..Len(element.children) |->
                LET child == element.children[j]
                IN  IF child.kind = "text"
                    THEN IF IsProcessed(child)
                         THEN TextNode(polish_text(child.text, r, c))
                         ELSE child
                    ELSE process_element(child, r, c)]]

\* The strings that process_element(element) passes to polish_text, in order
RECURSIVE Polished(_)
Polished(element) ==
    IF element.name \in skip_tags THEN <<>>
    ELSE LET h[j \in 0..Len(element.children)] ==
                 IF j = 0 THEN <<>>
                 ELSE LET child == element.children[j]
                      IN  h[j - 1] \o
                          (IF child.kind = "text"
                           THEN IF IsProcessed(child) THEN <<child.text>> ELSE <<>>
                           ELSE Polished(child))
         IN  h[Len(element.children)]

\* Whether the subtree has a body tag (soup.body is soup.find('body'))
RECURSIVE HasBody(_)
HasBody(nodes) ==
    \E j \in 1..Len(nodes) :
        nodes[j].kind = "tag" /\ (nodes[j].name = "body" \/ HasBody(nodes[j].children))

\* The nodes with F applied to soup.body, the first body tag in document order
RECURSIVE OnBody(_, _, _)
OnBody(nodes, r, c) ==
    LET first_j == CHOOSE j \in 1..Len(nodes) :
                     /\ HasBody(<<nodes[j]>>)
                     /\ \A j2 \in 1..(j - 1) : ~HasBody(<<nodes[j2]>>)
        n == nodes[first_j]
    IN  [nodes EXCEPT ![first_j] =
            IF n.name = "body" THEN process_element(n, r, c)
            ELSE [n EXCEPT !.children = OnBody(n.children, r, c)]]

RECURSIVE BodyOf(_)
BodyOf(nodes) ==
    LET first_j == CHOOSE j \in 1..Len(nodes) :
                     /\ HasBody(<<nodes[j]>>)
                     /\ \A j2 \in 1..(j - 1) : ~HasBody(<<nodes[j2]>>)
        n == nodes[first_j]
    IN  IF n.name = "body" THEN n ELSE BodyOf(n.children)

\* if soup.body: process_element(soup.body)
\* else: for element in soup.children: if hasattr(element, 'children'): ...
ProcessSoup(nodes, r, c) ==
    IF HasBody(nodes) THEN OnBody(nodes, r, c)
    ELSE [j \in 1..Len(nodes) |->
            IF nodes[j].kind = "tag" THEN process_element(nodes[j], r, c) ELSE nodes[j]]

PolishedOfSoup(nodes) ==
    IF HasBody(nodes) THEN Polished(BodyOf(nodes))
    ELSE LET h[j \in 0..Len(nodes)] ==
                 IF j = 0 THEN <<>>
                 ELSE h[j - 1] \o (IF nodes[j].kind = "tag" THEN Polished(nodes[j]) ELSE <<>>)
         IN  h[Len(nodes)]

\* re.IGNORECASE on the letters of "code" and "pre"
Lower(ch) == IF ch >= 65 /\ ch <= 90 THEN ch + 32 ELSE ch

LitIgnoreCase(t, i, lit) ==
    /\ i >= 1
    /\ i + Len(lit) - 1 <= Len(t)
    /\ \A m \in 1..Len(lit) : Lower(t[i + m - 1]) = lit[m]

\* r'<name[^>]*>[\s\S]*?</name>' with re.IGNORECASE
BlockPattern(name, t, i) ==
    IF ~LitIgnoreCase(t, i, <<Cp.lt>> \o name) THEN 0
    ELSE LET gts == { j \in (i + 1 + Len(name))..Len(t) : t[j] = Cp.gt }
             gt == CHOOSE j \in gts : \A j2 \in gts : j <= j2
             close == <<Cp.lt, Cp.slash>> \o name \o <<Cp.gt>>
             ends == { j \in (gt + 1)..Len(t) : LitIgnoreCase(t, j, close) }
         IN  IF gts = {} \/ ends = {} THEN 0
             ELSE (CHOOSE j \in ends : \A j2 \in ends : j <= j2) + Len(close) - 1

CodeBlockPattern(t, i) == BlockPattern(TagChars.code, t, i)
PreBlockPattern(t, i) == BlockPattern(TagChars.pre, t, i)

NotLt(ch) == ch # Cp.lt

\* r'>([^<]+)<'
BetweenTagsPattern(t, i) ==
    IF At(t, i) # Cp.gt THEN 0
    ELSE LET j == Span(NotLt, t, i + 1)
         IN  IF j > i + 1 /\ At(t, j) = Cp.lt THEN j ELSE 0

\* The strings that the lambda of processors.py:225 passes to polish_text
BetweenTags(t) ==
    LET starts == MatchStarts(BetweenTagsPattern, t)
    IN  [j \in 1..Len(starts) |->
            SubSeq(t, starts[j] + 1, BetweenTagsPattern(t, starts[j]) - 1)]

\* The outcomes of polish_text on the strings, in order
Outcomes(strings, r, c) == [j \in 1..Len(strings) |-> PolishOutcome(strings[j], r, c)]

\* The exception of the first outcome that has one, or "none"
FirstRaised(outcomes) ==
    LET bad == { j \in 1..Len(outcomes) : outcomes[j].raised # "none" }
    IN  IF bad = {} THEN "none"
        ELSE outcomes[CHOOSE j \in bad : \A j2 \in bad : j <= j2].raised

HtmlInit(docs, configs, customs) ==
    /\ call = "HTMLProcessor.process"
    /\ doc \in docs
    /\ bs4_available \in BOOLEAN
    /\ input = Serialize(doc)
    /\ rules \in configs
    /\ custom \in customs
    /\ text = input
    /\ pc = "process"
    /\ k = 1
    /\ log = <<>>
    /\ raised = "none"
    /\ pass = 1
    /\ first = <<>>
    /\ result = FALSE
    /\ code_blocks = <<>>
    /\ lines = <<>>
    /\ processed_lines = <<>>
    /\ in_indented_code = FALSE
    /\ fed = <<>>
    /\ soup = <<>>
    /\ base = <<>>
    /\ override = <<>>
    /\ stats = PolishStats

MarkdownVars == <<lines, processed_lines, in_indented_code>>

\* if self._bs4_available: ... soup = BeautifulSoup(html, 'html.parser')
ParseWithBs4 ==
    /\ call = "HTMLProcessor.process"
    /\ pc = "process"
    /\ bs4_available
    /\ soup' = doc
    /\ pc' = "bs4_walk"
    /\ UNCHANGED <<call, input, rules, custom, text, k, raised, code_blocks, fed,
                   bs4_available, doc, PolishVars, MarkdownVars>>

\* processors.py:189-195, the walk over the tree
WalkSoup ==
    /\ call = "HTMLProcessor.process"
    /\ pc = "bs4_walk"
    /\ fed' = PolishedOfSoup(soup)
    /\ \E outcomes \in {Outcomes(fed', rules, custom)} : raised' = FirstRaised(outcomes)
    /\ IF raised' = "none"
       THEN soup' = ProcessSoup(soup, rules, custom) /\ pc' = "bs4_str"
       ELSE soup' = soup /\ pc' = "raised"
    /\ UNCHANGED <<call, input, rules, custom, text, k, code_blocks,
                   bs4_available, doc, PolishVars, MarkdownVars>>

\* return str(soup)
ReturnSoup ==
    /\ call = "HTMLProcessor.process"
    /\ pc = "bs4_str"
    /\ text' = Serialize(soup)
    /\ pc' = "done"
    /\ UNCHANGED <<call, input, rules, custom, k, raised, code_blocks, fed,
                   bs4_available, doc, soup, PolishVars, MarkdownVars>>

\* else: _process_simple; html = re.sub(r'<code[^>]*>[\s\S]*?</code>', save_code, ...)
SaveCodeBlocks ==
    /\ call = "HTMLProcessor.process"
    /\ pc = "process"
    /\ ~bs4_available
    /\ LET o == SaveCode(CodeBlockPattern, HTML_CODE, text, code_blocks)
       IN  text' = o.text /\ code_blocks' = o.code_blocks
    /\ pc' = "save_pre"
    /\ UNCHANGED <<call, input, rules, custom, k, raised, fed, HtmlVars,
                   PolishVars, MarkdownVars>>

\* html = re.sub(r'<pre[^>]*>[\s\S]*?</pre>', save_code, html, flags=re.IGNORECASE)
SavePreBlocks ==
    /\ call = "HTMLProcessor.process"
    /\ pc = "save_pre"
    /\ LET o == SaveCode(PreBlockPattern, HTML_CODE, text, code_blocks)
       IN  text' = o.text /\ code_blocks' = o.code_blocks
    /\ pc' = "between_tags"
    /\ UNCHANGED <<call, input, rules, custom, k, raised, fed, HtmlVars,
                   PolishVars, MarkdownVars>>

\* html = re.sub(r'>([^<]+)<', lambda m: f'>{polish_text(m.group(1), config)}<', html)
PolishBetweenTags ==
    /\ call = "HTMLProcessor.process"
    /\ pc = "between_tags"
    /\ fed' = BetweenTags(text)
    /\ \E outcomes \in {Outcomes(fed', rules, custom)} : raised' = FirstRaised(outcomes)
    /\ LET R(t, i, e) == <<Cp.gt>> \o polish_text(SubSeq(t, i + 1, e - 1), rules, custom)
                                   \o <<Cp.lt>>
       IN  IF raised' = "none"
           THEN text' = ReSub(BetweenTagsPattern, R, text) /\ pc' = "restore"
           ELSE text' = text /\ pc' = "raised"
    /\ k' = 1
    /\ UNCHANGED <<call, input, rules, custom, code_blocks, HtmlVars,
                   PolishVars, MarkdownVars>>

\* One iteration of "for i, code_block in enumerate(code_blocks):", i = k - 1
RestoreHtmlBlock ==
    /\ call = "HTMLProcessor.process"
    /\ pc = "restore"
    /\ k <= Len(code_blocks)
    /\ text' = Replace(text, Placeholder(HTML_CODE, k - 1), code_blocks[k])
    /\ k' = k + 1
    /\ UNCHANGED <<call, input, rules, custom, pc, raised, code_blocks, fed, HtmlVars,
                   PolishVars, MarkdownVars>>

\* return html
ReturnHtml ==
    /\ call = "HTMLProcessor.process"
    /\ pc = "restore"
    /\ k > Len(code_blocks)
    /\ pc' = "done"
    /\ UNCHANGED <<call, input, rules, custom, text, k, raised, code_blocks, fed,
                   HtmlVars, PolishVars, MarkdownVars>>

NextHtml ==
    \/ ParseWithBs4 \/ WalkSoup \/ ReturnSoup
    \/ SaveCodeBlocks \/ SavePreBlocks \/ PolishBetweenTags \/ RestoreHtmlBlock
    \/ ReturnHtml

-----------------------------------------------------------------------------
(* polish_text_verbose, polish.py:562-657: the text it computes            *)

\* The exception one iteration of the loop of polish_text_verbose raises for
\* rule on the text t, or "none": re.findall compiles the pattern, and
\* re.sub is reached only when the pattern matched (count > 0)
VerboseRuleException(rule, t) ==
    IF rule.type # "dict" THEN "TypeError"          \* rule['pattern']
    ELSE IF "pattern" \notin rule.keys THEN "KeyError"
    ELSE IF "replacement" \notin rule.keys THEN "KeyError"
    ELSE IF rule.pattern.type # "str" THEN "TypeError"
    ELSE IF ~Compiles(rule.pattern.val) THEN "re.error"
    ELSE IF \A i \in 1..Len(t) : ~Lit(t, i, rule.pattern.val) THEN "none"
    ELSE SubException(rule.pattern, rule.replacement)

\* len(re.findall(pattern, text)) of line 647, when the statements before it
\* and the compilation of the pattern raise nothing; 0 when they do
VerboseCount(rule, t) ==
    IF /\ rule.type = "dict"
       /\ "pattern" \in rule.keys
       /\ "replacement" \in rule.keys
       /\ rule.pattern.type = "str"
       /\ Compiles(rule.pattern.val)
    THEN LET pattern(s, i) ==
                 IF Lit(s, i, rule.pattern.val) THEN i + Len(rule.pattern.val) - 1 ELSE 0
         IN  ReCount(pattern, t)
    ELSE 0

\* lines 644 and 650-651: rule_name = rule.get('name', 'custom');
\* if count > 0: stats.custom_rules_applied[rule_name] = count
VerboseRecord(applied, rule, t) ==
    LET rule_name == IF "name" \in rule.keys THEN rule.name ELSE "custom"
        count == VerboseCount(rule, t)
    IN  IF count > 0
        THEN [n \in DOMAIN applied \cup {rule_name} |->
                 IF n = rule_name THEN count ELSE applied[n]]
        ELSE applied

\* lines 597-606, one pair (before, after) of matches, taken from the match
\* i..e of EMDASH_SPACING_PATTERN: 1 when the first place of the text where
\* before, an em-dash pair and after stand does not read as the correct
\* spacing does, else 0
EmdashCounted(t, i, e) ==
    LET before == t[i]
        after == t[e]
        current_pattern(s, j) ==
            LET a == Span(IsSpace, s, j + 1)
                c == Span(IsSpace, s, a + 2)
            IN  IF s[j] = before /\ Lit(s, a, CJK_EM_DASH) /\ At(s, c) = after
                THEN c ELSE 0
        found == NextMatch(current_pattern, t, 1)
    IN  IF found # 0 /\ SubSeq(t, found, current_pattern(t, found)) # EmdashRepl(t, i, e)
        THEN 1 ELSE 0

\* lines 593-606: the loop over EMDASH_SPACING_PATTERN.findall(text)
EmdashSpacingFixed(t) ==
    LET n == Len(t)
        f[pos \in 1..(n + 1)] ==
            LET i == NextMatch(EMDASH_SPACING_PATTERN, t, pos)
                e == EMDASH_SPACING_PATTERN(t, i)
            IN  IF i = 0 THEN 0 ELSE EmdashCounted(t, i, e) + f[e + 1]
    IN  f[1]

\* One iteration of "for rule in config.custom_rules:" (lines 640-655)
VerboseApplyCustomRule(rule, t) ==
    LET exc == VerboseRuleException(rule, t)
    IN  IF exc = "none"
        THEN [raised |-> "none", text |-> LiteralSub(rule.pattern.val, rule.replacement.val, t)]
        ELSE IF exc \in Caught THEN [raised |-> "none", text |-> t]
        ELSE [raised |-> exc, text |-> t]

\* polish_text_verbose(t, RuleConfig(rules=r, custom_rules=c)) is called
VerboseInit(texts, configs, customs) ==
    /\ call = "polish_text_verbose"
    /\ input \in texts
    /\ rules \in configs
    /\ custom \in customs
    /\ text = input
    /\ pc = "ellipsis_normalization"
    /\ k = 1
    /\ log = <<>>
    /\ raised = "none"
    /\ pass = 1
    /\ first = <<>>
    /\ Idle

\* The statement of the rule name in polish_text_verbose, then the statement
\* next
VerboseRule(name, next) ==
    /\ call = "polish_text_verbose"
    /\ pc = name
    /\ text' = Stage(name, text, rules)
    /\ pc' = next
    /\ log' = Append(log, name)
    /\ UNCHANGED <<call, input, rules, custom, k, raised, pass, first, AdapterVars>>

\* lines 581-583
VerboseEllipsisNormalization == VerboseRule("ellipsis_normalization", "contains_cjk")

\* line 586, if contains_cjk(text):
VerboseGate ==
    /\ call = "polish_text_verbose"
    /\ pc = "contains_cjk"
    /\ pc' = IF contains_cjk(text) THEN "dash_conversion" ELSE "excessive_newline"
    /\ log' = Append(log, "contains_cjk")
    /\ UNCHANGED <<call, input, rules, custom, text, k, raised, pass, first, AdapterVars>>

\* lines 588-633, the rules of the block in the order of the code
VerboseDashConversion == VerboseRule("dash_conversion", "emdash_spacing")
VerboseEmdashSpacing ==
    /\ call = "polish_text_verbose"
    /\ pc = "emdash_spacing"
    /\ stats' = IF is_enabled(rules, "emdash_spacing")
                THEN [stats EXCEPT !.emdash_spacing_fixed = @ + EmdashSpacingFixed(text)]
                ELSE stats
    /\ text' = Stage("emdash_spacing", text, rules)
    /\ pc' = "quote_spacing"
    /\ log' = Append(log, "emdash_spacing")
    /\ UNCHANGED <<call, input, rules, custom, k, raised, pass, first, VerboseFrame>>
VerboseQuoteSpacing == VerboseRule("quote_spacing", "cjk_english_spacing")
VerboseCjkEnglishSpacing == VerboseRule("cjk_english_spacing", "space_collapsing")
VerboseSpaceCollapsing == VerboseRule("space_collapsing", "trailing_space")
VerboseTrailingSpace == VerboseRule("trailing_space", "excessive_newline")
\* line 637
VerboseExcessiveNewline == VerboseRule("excessive_newline", "custom_rules")

\* One iteration of "for rule in config.custom_rules:"
VerboseCustomRule ==
    /\ call = "polish_text_verbose"
    /\ pc = "custom_rules"
    /\ k <= Len(custom)
    /\ LET o == VerboseApplyCustomRule(custom[k], text)
       IN  /\ text' = o.text
           /\ raised' = o.raised
           /\ pc' = IF o.raised = "none" THEN "custom_rules" ELSE "raised"
    /\ stats' = [stats EXCEPT !.custom_rules_applied = VerboseRecord(@, custom[k], text)]
    /\ k' = k + 1
    /\ log' = Append(log, "custom_rule")
    /\ UNCHANGED <<call, input, rules, custom, pass, first, VerboseFrame>>

\* return text.rstrip(), stats
VerboseReturn ==
    /\ call = "polish_text_verbose"
    /\ pc = "custom_rules"
    /\ k > Len(custom)
    /\ text' = rstrip(text)
    /\ pc' = "done"
    /\ log' = Append(log, "rstrip")
    /\ UNCHANGED <<call, input, rules, custom, k, raised, pass, first, AdapterVars>>

NextVerbose ==
    \/ VerboseEllipsisNormalization \/ VerboseGate \/ VerboseDashConversion
    \/ VerboseEmdashSpacing \/ VerboseQuoteSpacing \/ VerboseCjkEnglishSpacing
    \/ VerboseSpaceCollapsing \/ VerboseTrailingSpace \/ VerboseExcessiveNewline
    \/ VerboseCustomRule \/ VerboseReturn

-----------------------------------------------------------------------------
(* The rule functions called on their own, as the tests of test_polish.py  *)
(* call them.                                                              *)

\* function(t) is called
FunctionInit(function, texts) ==
    /\ call = function
    /\ input \in texts
    /\ rules = DEFAULT_RULES
    /\ custom = <<>>
    /\ text = input
    /\ pc = "call"
    /\ k = 1
    /\ log = <<>>
    /\ raised = "none"
    /\ pass = 1
    /\ first = <<>>
    /\ Idle

\* The call of function returns value
Returns(function, value) ==
    /\ call = function
    /\ pc = "call"
    /\ text' = value
    /\ pc' = "done"
    /\ UNCHANGED <<call, input, rules, custom, k, log, raised, pass, first, AdapterVars>>

CallReplaceDash == Returns("_replace_dash", _replace_dash(text))
CallFixEmdashSpacing == Returns("_fix_emdash_spacing", _fix_emdash_spacing(text))
CallFixQuotes == Returns("_fix_quotes", _fix_quotes(text))
CallFixSingleQuotes == Returns("_fix_single_quotes", _fix_single_quotes(text))
CallNormalizeFullwidthPunctuation ==
    Returns("_normalize_fullwidth_punctuation", _normalize_fullwidth_punctuation(text))
CallFixCurrencySpacing == Returns("_fix_currency_spacing", _fix_currency_spacing(text))
CallFixSlashSpacing == Returns("_fix_slash_spacing", _fix_slash_spacing(text))

-----------------------------------------------------------------------------
(* Merging configurations, config.py:164-198                               *)
(*                                                                         *)
(* A rules mapping is a function from rule names to values.  config_data   *)
(* is a parsed TOML file: the sections it has (keys), and their content.   *)

\* d.update(other) for the keys of other that are in the set accepted
Update(d, other, accepted) ==
    LET K == DOMAIN other \cap accepted
    IN  [key \in DOMAIN d \cup K |-> IF key \in K THEN other[key] ELSE d[key]]

\* _merge_config_data(rules, custom_rules, config_data) is called
MergeDataInit(bases, lists, sections) ==
    /\ call = "_merge_config_data"
    /\ base \in [rules : bases, custom_rules : lists]
    /\ override \in sections
    /\ rules = base.rules
    /\ custom = base.custom_rules
    /\ input = <<>>
    /\ text = <<>>
    /\ pc = "rules"
    /\ k = 1
    /\ log = <<>>
    /\ raised = "none"
    /\ pass = 1
    /\ first = <<>>
    /\ result = FALSE
    /\ code_blocks = <<>>
    /\ lines = <<>>
    /\ processed_lines = <<>>
    /\ in_indented_code = FALSE
    /\ fed = <<>>
    /\ bs4_available = FALSE
    /\ doc = <<>>
    /\ soup = <<>>
    /\ stats = PolishStats

MergeFrame ==
    <<call, input, text, k, log, raised, pass, first, result, code_blocks, lines,
      processed_lines, in_indented_code, fed, bs4_available, doc, soup, base, override,
      stats>>

\* lines 173-176: if 'rules' in config_data: ... if key in DEFAULT_RULES:
MergeRules ==
    /\ call = "_merge_config_data"
    /\ pc = "rules"
    /\ rules' = IF "rules" \in override.keys
                THEN Update(rules, override.rules, DOMAIN DEFAULT_RULES)
                ELSE rules
    /\ pc' = "custom_rules"
    /\ UNCHANGED <<custom, MergeFrame>>

\* lines 179-180: custom_rules.extend(config_data['custom_rules'])
ExtendCustomRules ==
    /\ call = "_merge_config_data"
    /\ pc = "custom_rules"
    /\ custom' = IF "custom_rules" \in override.keys
                 THEN custom \o override.custom_rules
                 ELSE custom
    /\ pc' = "done"
    /\ UNCHANGED <<rules, MergeFrame>>

\* merge_configs(base, override) is called
MergeConfigsInit(bases, overrides, lists) ==
    /\ call = "merge_configs"
    /\ base \in [rules : bases, custom_rules : lists]
    /\ override \in [keys : {{"rules", "custom_rules"}}, rules : overrides, custom_rules : lists]
    /\ rules = <<>>
    /\ custom = <<>>
    /\ input = <<>>
    /\ text = <<>>
    /\ pc = "copy"
    /\ k = 1
    /\ log = <<>>
    /\ raised = "none"
    /\ pass = 1
    /\ first = <<>>
    /\ result = FALSE
    /\ code_blocks = <<>>
    /\ lines = <<>>
    /\ processed_lines = <<>>
    /\ in_indented_code = FALSE
    /\ fed = <<>>
    /\ bs4_available = FALSE
    /\ doc = <<>>
    /\ soup = <<>>
    /\ stats = PolishStats

\* line 193: merged_rules = base.rules.copy()
CopyBaseRules ==
    /\ call = "merge_configs"
    /\ pc = "copy"
    /\ rules' = base.rules
    /\ pc' = "update"
    /\ UNCHANGED <<custom, MergeFrame>>

\* line 194: merged_rules.update(override.rules)
UpdateRules ==
    /\ call = "merge_configs"
    /\ pc = "update"
    /\ rules' = Update(rules, override.rules, DOMAIN override.rules)
    /\ pc' = "custom_rules"
    /\ UNCHANGED <<custom, MergeFrame>>

\* lines 196-198: merged_custom_rules = base.custom_rules + override.custom_rules
ConcatCustomRules ==
    /\ call = "merge_configs"
    /\ pc = "custom_rules"
    /\ custom' = base.custom_rules \o override.custom_rules
    /\ pc' = "done"
    /\ UNCHANGED <<rules, MergeFrame>>

NextMerge ==
    \/ MergeRules \/ ExtendCustomRules
    \/ CopyBaseRules \/ UpdateRules \/ ConcatCustomRules

-----------------------------------------------------------------------------
(* The calls that are checked.                                             *)

MaxPieces == 3
MaxIdemPieces == 5
MaxBoundaryChars == 2

\* U+4E2D (Han), U+6587 (Han), U+3072 (Hiragana), U+D55C (Hangul)
Sample == [zhong |-> 20013, wen |-> 25991, hi |-> 12402, han |-> 54620]

\* Pieces of text that offer a site to the rules of the pipeline
Pieces ==
    { <<Sample.zhong>>, <<Sample.hi>>, <<Sample.han>>, <<97>>, <<Cp.hyphen, Cp.hyphen>>,
      <<Cp.dot, Cp.space, Cp.dot, Cp.space, Cp.dot>>,
      <<Cp.nl, Cp.nl, Cp.nl>>, <<Cp.space>> }

\* The default configuration, and one with every optional rule switched on
AllOn ==
    [DEFAULT_RULES EXCEPT !.fullwidth_brackets = TRUE,
                          !.consecutive_punctuation_limit = 1]

Init ==
    PolishInit(TextsOf(Pieces, MaxPieces), {DEFAULT_RULES, AllOn},
               {<<>>, <<space_to_underscore>>})

Next == NextBuiltin \/ CustomRule

Spec == Init /\ [][Next]_vars

\* polish_text run twice, default configuration, no custom rules
IdemPieces == { <<Sample.zhong>>, <<97>>, <<Cp.hyphen, Cp.hyphen>>, <<Cp.comma>> }

InitIdem == PolishInit(TextsOf(IdemPieces, MaxIdemPieces), {DEFAULT_RULES}, {<<>>})

NextIdem == NextBuiltin \/ Again

SpecIdem == InitIdem /\ [][NextIdem]_vars

\* contains_cjk on the codepoints at the edges of the two blocks
BoundaryChars ==
    { <<19967>>, <<19968>>, <<40959>>, <<40960>>,       \* U+4DFF U+4E00 U+9FFF U+A000
      <<44031>>, <<44032>>, <<55215>>, <<55216>>,       \* U+ABFF U+AC00 U+D7AF U+D7B0
      <<Sample.hi>>, <<12459>>, <<97>>, <<48>> }

InitCjk ==
    /\ call = "contains_cjk"
    /\ input \in TextsOf(BoundaryChars, MaxBoundaryChars)
    /\ rules = DEFAULT_RULES
    /\ custom = <<>>
    /\ text = input
    /\ pc = "call"
    /\ k = 1
    /\ log = <<>>
    /\ raised = "none"
    /\ pass = 1
    /\ first = <<>>
    /\ Idle

CallContainsCjk ==
    /\ call = "contains_cjk"
    /\ pc = "call"
    /\ result' = contains_cjk(text)
    /\ pc' = "done"
    /\ UNCHANGED <<call, input, rules, custom, text, k, log, raised, pass, first,
                   code_blocks, lines, processed_lines, in_indented_code, fed,
                   bs4_available, doc, soup, base, override, stats>>

NextCjk == CallContainsCjk

SpecCjk == InitCjk /\ [][NextCjk]_vars

\* polish_text under configurations with lists of custom rules, sound and not
MaxCustom == 3
MaxCustomPieces == 2

CustomPieces == { <<Sample.zhong>>, <<97>>, <<Cp.space>> }

CustomEntries ==
    { space_to_underscore, underscore_to_hyphen, bad_rule, incomplete,
      no_replacement, bad_template, int_pattern, int_replacement, not_a_mapping }

InitCustom ==
    PolishInit(TextsOf(CustomPieces, MaxCustomPieces), {DEFAULT_RULES},
               ListsOf(CustomEntries, MaxCustom))

SpecCustom == InitCustom /\ [][Next]_vars

\* polish_text_verbose on texts that offer a site to the rules of polish_text
MaxVerbosePieces == 3

VerbosePieces ==
    { <<Sample.zhong>>, <<97>>, <<Cp.comma>>, <<Cp.hyphen, Cp.hyphen>>,
      <<Cp.lparen>>, <<Cp.space>>, <<Cp.nl, Cp.nl, Cp.nl>> }

InitVerbose ==
    VerboseInit(TextsOf(VerbosePieces, MaxVerbosePieces), {DEFAULT_RULES, AllOn},
                {<<>>, <<space_to_underscore>>})

SpecVerbose == InitVerbose /\ [][NextVerbose]_vars

\* polish_text under configurations that disable one built-in rule, on texts
\* made of sites of the rules
MaxSites == 2

RuleNames == DOMAIN DEFAULT_RULES

\* rules[name] = False, or 0 for the limit
OffConfig(name) ==
    [AllOn EXCEPT ![name] = IF name = "consecutive_punctuation_limit" THEN 0 ELSE FALSE]

\* One site for each built-in rule, in CJK text
Sites ==
    { <<Cp.dot, Cp.space, Cp.dot, Cp.space, Cp.dot>>,
      <<Sample.zhong, Cp.hyphen, Cp.hyphen, Sample.zhong>>,
      <<Sample.zhong, Cp.emdash, Cp.emdash, Sample.zhong>>,
      <<Sample.zhong, Cp.ldquo>>, <<Sample.zhong, Cp.lsquo>>,
      <<Sample.zhong, 97>>, <<Sample.zhong, Cp.lparen, 97, Cp.rparen>>,
      <<Cp.lparen, Sample.zhong, Cp.rparen>>,
      <<Cp.lbracket, Sample.zhong, Cp.rbracket>>,
      <<Sample.zhong, Cp.comma, Sample.zhong>>,
      <<Sample.zhong, Cp.space, Cp.fwA>>,
      <<Sample.zhong, Cp.fwbang, Cp.fwbang>>,
      <<Sample.zhong, Cp.space, Cp.dollar, Cp.space, 49>>,
      <<Sample.zhong, Cp.space, Cp.slash, Cp.space, Sample.zhong>>,
      <<Sample.zhong, Cp.space, Cp.space, Sample.zhong>>,
      <<Cp.nl, Cp.nl, Cp.nl>> }

InitDisabled ==
    PolishInit(TextsOf(Sites, MaxSites), { OffConfig(name) : name \in RuleNames }, {<<>>})

SpecDisabled == InitDisabled /\ [][NextBuiltin]_vars

\* _replace_dash on runs of hyphens between CJK and other characters
MaxDashPieces == 5

DashPieces ==
    { <<Sample.zhong>>, <<Sample.han>>, <<97>>, <<Cp.hyphen>>, <<Cp.hyphen, Cp.hyphen>>,
      <<Cp.space>>, <<Cp.fwrparen>> }

InitDash == FunctionInit("_replace_dash", TextsOf(DashPieces, MaxDashPieces))

SpecDash == InitDash /\ [][CallReplaceDash]_vars

\* polish_text on texts of several lines, some of them horizontal rules
MaxLinePieces == 5

LinePieces ==
    { <<Sample.zhong>>, <<97>>, <<Cp.hyphen, Cp.hyphen, Cp.hyphen>>, <<Cp.nl>> }

InitLines == PolishInit(TextsOf(LinePieces, MaxLinePieces), {DEFAULT_RULES}, {<<>>})

SpecLines == InitLines /\ [][NextBuiltin]_vars

\* _fix_emdash_spacing on texts with several em-dash pairs, no two of them
\* with nothing but whitespace between them
MaxEmdashPieces == 5

EmdashPieces ==
    { <<Sample.zhong>>, <<97>>, CJK_EM_DASH, <<Cp.space>>, <<Cp.fwrparen>>, <<12298>> }

InitEmdash ==
    FunctionInit("_fix_emdash_spacing",
                 { t \in TextsOf(EmdashPieces, MaxEmdashPieces) :
                     \A i \in 1..Len(t) :
                         Lit(t, i, CJK_EM_DASH) =>
                             ~Lit(t, Span(IsSpace, t, i + 2), CJK_EM_DASH) })

SpecEmdash == InitEmdash /\ [][CallFixEmdashSpacing]_vars

\* _fix_quotes and _fix_single_quotes on quotes beside each kind of neighbour
MaxQuotePieces == 4

\* The neighbours: Han, Hangul, a Latin letter, a full-width comma, a closing
\* and an opening book-title mark, the em-dash pair, one em-dash, a space
QuoteNeighbours ==
    { <<Sample.zhong>>, <<Sample.han>>, <<97>>, <<65292>>, <<12299>>, <<12298>>,
      CJK_EM_DASH, <<Cp.emdash>>, <<Cp.space>> }

InitQuotes ==
    \/ FunctionInit("_fix_quotes",
                    TextsOf(QuoteNeighbours \cup {<<Cp.ldquo>>, <<Cp.rdquo>>}, MaxQuotePieces))
    \/ FunctionInit("_fix_single_quotes",
                    TextsOf(QuoteNeighbours \cup {<<Cp.lsquo>>, <<Cp.rsquo>>}, MaxQuotePieces))

NextQuotes == CallFixQuotes \/ CallFixSingleQuotes

SpecQuotes == InitQuotes /\ [][NextQuotes]_vars

\* The two merges, on mappings that mention built-in names and one other
MaxMergeCustom == 1

\* The mappings from a subset of names to booleans
Mappings(names) == UNION { [S -> BOOLEAN] : S \in SUBSET names }

MergeLists == ListsOf({space_to_underscore, underscore_to_hyphen}, MaxMergeCustom)

InitMerge ==
    \/ MergeDataInit({DEFAULT_RULES, AllOn}, MergeLists,
                     [keys : SUBSET {"rules", "custom_rules"},
                      rules : Mappings({"dash_conversion", "fullwidth_brackets", "bogus"}),
                      custom_rules : MergeLists])
    \/ MergeConfigsInit({DEFAULT_RULES} \cup Mappings({"dash_conversion", "fullwidth_brackets"}),
                        {DEFAULT_RULES} \cup Mappings({"dash_conversion", "fullwidth_brackets", "bogus"}),
                        MergeLists)

SpecMerge == InitMerge /\ [][NextMerge]_vars

\* polish_text under RuleConfig() and under RuleConfig(rules=...) built from
\* a mapping that mentions one or two rules only
MaxDefaultSites == 2

PartialConfigs ==
    { [dash_conversion |-> FALSE], [cjk_english_spacing |-> FALSE],
      [dash_conversion |-> FALSE, cjk_english_spacing |-> FALSE] }

InitDefaults ==
    PolishInit(TextsOf(Sites, MaxDefaultSites), {DEFAULT_RULES} \cup PartialConfigs, {<<>>})

SpecDefaults == InitDefaults /\ [][NextBuiltin]_vars

\* _normalize_fullwidth_punctuation on marks between Han, kana, Hangul, Latin
\* letters and whitespace
MaxPunctPieces == 5

PunctPieces ==
    { <<Sample.zhong>>, <<Sample.hi>>, <<Sample.han>>, <<97>>, <<Cp.comma>>,
      <<Cp.dot>>, <<Cp.space>> }

InitPunct == FunctionInit("_normalize_fullwidth_punctuation", TextsOf(PunctPieces, MaxPunctPieces))

SpecPunct == InitPunct /\ [][CallNormalizeFullwidthPunctuation]_vars

\* polish_text on runs of spaces inside lines, at their start and at their end
MaxSpacePieces == 4

SpacePieces ==
    { <<Sample.zhong>>, <<97>>, <<Cp.space>>, <<Cp.space, Cp.space>>, <<Cp.nl>>, <<Cp.tab>> }

InitSpaces ==
    PolishInit(TextsOf(SpacePieces, MaxSpacePieces), {DEFAULT_RULES, AllOn}, {<<>>})

SpecSpaces == InitSpaces /\ [][NextBuiltin]_vars

\* _fix_currency_spacing on digits after currency symbols, the letters of a
\* currency code, another capital letter and a bar
MaxCurrencyPieces == 5

CurrencyPieces ==
    { <<Cp.dollar>>, <<85>>, <<83>>, <<68>>, <<65>>, <<Cp.bar>>, <<Cp.space>>, <<49>> }

InitCurrency == FunctionInit("_fix_currency_spacing", TextsOf(CurrencyPieces, MaxCurrencyPieces))

SpecCurrency == InitCurrency /\ [][CallFixCurrencySpacing]_vars

\* _fix_slash_spacing on slashes beside letters, colons, spaces and slashes
MaxSlashPieces == 6

SlashPieces == { <<97>>, <<Cp.slash>>, <<Cp.space>>, <<Cp.colon>> }

InitSlash == FunctionInit("_fix_slash_spacing", TextsOf(SlashPieces, MaxSlashPieces))

SpecSlash == InitSlash /\ [][CallFixSlashSpacing]_vars

\* polish_text on Han and Hangul beside letters, digits and unit suffixes
MaxSpacingPieces == 5

SpacingPieces ==
    { <<Sample.zhong>>, <<Sample.han>>, <<67>>, <<53>>, <<Cp.percent>>, <<Cp.degree>>,
      <<Cp.space>> }

InitSpacing == PolishInit(TextsOf(SpacingPieces, MaxSpacingPieces), {DEFAULT_RULES}, {<<>>})

SpecSpacing == InitSpacing /\ [][NextBuiltin]_vars

\* polish_text_verbose on em-dash pairs with and without the spaces around
\* them, under lists of custom rules that apply, match nothing or fail
MaxStatsPieces == 4
MaxStatsCustom == 2

StatsPieces ==
    { <<Sample.zhong>>, <<Cp.space>>,
      <<Sample.zhong>> \o CJK_EM_DASH \o <<Sample.zhong>>,
      <<Sample.zhong, Cp.space>> \o CJK_EM_DASH \o <<Cp.space, Sample.zhong>> }

StatsRules == {space_to_underscore, underscore_to_hyphen, bad_rule, incomplete, bad_template}

InitStats ==
    VerboseInit(TextsOf(StatsPieces, MaxStatsPieces), {DEFAULT_RULES},
                ListsOf(StatsRules, MaxStatsCustom))

SpecStats == InitStats /\ [][NextVerbose]_vars

\* polish_text on line breaks beside slashes, hyphen runs, em-dash pairs and
\* spaces
MaxBreakPieces == 4

BreakPieces ==
    { <<Sample.zhong>>, <<Cp.nl>>, <<Cp.slash>>, CJK_EM_DASH, <<Cp.hyphen, Cp.hyphen>>,
      <<Cp.space>> }

InitBreaks == PolishInit(TextsOf(BreakPieces, MaxBreakPieces), {DEFAULT_RULES, AllOn}, {<<>>})

SpecBreaks == InitBreaks /\ [][NextBuiltin]_vars

\* MarkdownProcessor.process and HTMLProcessor.process, the latter with and
\* without the bs4 package
MaxMarkdownPieces == 3
MaxTopNodes == 3
MaxChildren == 2

ProseSample == <<Sample.zhong, 97>>

MarkdownPieces ==
    { ProseSample, <<Cp.nl>>, <<Cp.space, Cp.space, Cp.space, Cp.space>>,
      <<Cp.backtick>> \o ProseSample \o <<Cp.backtick>>,
      Backticks3 \o ProseSample \o Backticks3,
      Placeholder(CODE_BLOCK, 0),
      Backticks3 \o Placeholder(CODE_BLOCK, 1) \o Backticks3 }

\* The sequences of 1..n nodes of S in which no two strings are neighbours
\* (the parser reads neighbouring text as one string)
NodeLists(S, n) ==
    { l \in ListsOf(S, n) :
        /\ l # <<>>
        /\ \A j \in 1..(Len(l) - 1) : ~(l[j].kind = "text" /\ l[j + 1].kind = "text") }

Strings == { TextNode(ProseSample), TextNode(Placeholder(HTML_CODE, 0)) }

\* <name>string</name>, and a paragraph with an attribute
Elements ==
    { Tag(name, <<>>, <<string>>) :
        name \in {"p", "div", "code", "pre", "script", "style"}, string \in Strings }
    \cup { Tag("p", <<Cp.space, 105, 100, 61, 34, 97, 34>>, <<TextNode(ProseSample)>>) }

\* <div>...</div> and <body>...</body> around strings and elements
Containers ==
    { Tag(name, <<>>, children) :
        name \in {"div", "body"}, children \in NodeLists(Strings \cup Elements, MaxChildren) }

\* Fragments of strings and elements, and a container with a string before
\* or after it
Documents ==
    NodeLists(Strings \cup Elements, MaxTopNodes)
    \cup { <<c>> : c \in Containers }
    \cup { <<TextNode(ProseSample), c>> : c \in Containers }
    \cup { <<c, TextNode(ProseSample)>> : c \in Containers }

InitAdapters ==
    \/ MarkdownInit(TextsOf(MarkdownPieces, MaxMarkdownPieces), {DEFAULT_RULES}, {<<>>})
    \/ HtmlInit(Documents, {DEFAULT_RULES}, {<<>>})

NextAdapters == NextMarkdown \/ NextHtml

SpecAdapters == InitAdapters /\ [][NextAdapters]_vars

\* HTMLProcessor.process on one div or body whose strings begin or end with
\* whitespace or hold nothing else, beside b and code elements
MaxRunNodes == 3

RunStrings ==
    { TextNode(ProseSample),
      TextNode(<<Cp.space>> \o ProseSample \o <<Cp.space>>),
      TextNode(<<Cp.space, Cp.nl>> \o ProseSample),
      TextNode(<<Cp.space>>) }

RunElements ==
    { Tag("p", <<>>, <<string>>) : string \in RunStrings }
    \cup { Tag("code", <<>>, <<TextNode(ProseSample)>>) }

RunDocuments ==
    { <<Tag(name, <<>>, children)>> :
        name \in {"div", "body"},
        children \in NodeLists(RunStrings \cup RunElements, MaxRunNodes) }

InitRuns == HtmlInit(RunDocuments, {DEFAULT_RULES}, {<<>>})

SpecRuns == InitRuns /\ [][NextHtml]_vars

\* MarkdownProcessor.process on prose lines, lines indented by four spaces or
\* a tab, blank lines and lines of two spaces
MaxMarkdownLines == 4

MarkdownLines ==
    { ProseSample, <<>>, <<Cp.space, Cp.space>>,
      <<Cp.space, Cp.space, Cp.space, Cp.space>> \o ProseSample,
      <<Cp.tab>> \o ProseSample,
      <<Cp.backtick>> \o ProseSample \o <<Cp.backtick>> }

InitIndented ==
    MarkdownInit({ Join(l, Cp.nl) : l \in ListsOf(MarkdownLines, MaxMarkdownLines) \ {<<>>} },
                 {DEFAULT_RULES}, {<<>>})

SpecIndented == InitIndented /\ [][NextMarkdown]_vars

-----------------------------------------------------------------------------
(* Properties of polish_text and contains_cjk.                             *)

\* C1: polishing the result of polish_text again, under the same default
\* configuration without custom rules, returns that result unchanged.
C1_Idempotent == (pass = 2 /\ pc = "done") => text = first

\* The text has a character of U+4E00-U+9FFF or of U+AC00-U+D7AF
HasHanOrHangul(t) ==
    \E i \in 1..Len(t) : t[i] \in 19968..40959 \/ t[i] \in 44032..55215

\* The steps that may run on a text without Han and Hangul
UngatedSteps ==
    {"ellipsis_normalization", "contains_cjk", "excessive_newline", "custom_rule", "rstrip"}

\* C2: on an input without Han and without Hangul (kana included) no rule of
\* the CJK block runs: the result is the input after ellipsis normalisation,
\* newline collapsing, the custom rules and the final trim, and nothing else.
C2_GateFrame ==
    (call = "polish_text" /\ ~HasHanOrHangul(input)) =>
        /\ \A i \in 1..Len(log) : log[i] \in UngatedSteps
        /\ pc = "done" =>
             text = rstrip(_apply_custom_rules(
                        CollapseNewlines(Stage("ellipsis_normalization", input, rules)),
                        custom).text)

\* A kana letter followed by a Latin letter, which the CJK block would set
\* apart, came out still joined, while the ungated steps changed the text.
C2_Witness ==
    /\ pc = "done"
    /\ ~HasHanOrHangul(input)
    /\ \E i \in 1..(Len(input) - 1) : input[i] = Sample.hi /\ input[i + 1] = 97
    /\ \E i \in 1..(Len(text) - 1) : text[i] = Sample.hi /\ text[i + 1] = 97
    /\ CjkRules(input, rules) # input
    /\ text # input

\* C3: contains_cjk is true exactly when the text has a character in
\* U+4E00-U+9FFF or in U+AC00-U+D7AF; kana alone is not CJK.
C3_ContainsCjk ==
    (call = "contains_cjk" /\ pc = "done") => (result <=> HasHanOrHangul(input))

\* The last Han codepoint next to the first codepoint after Hangul
C3_Witness ==
    /\ call = "contains_cjk"
    /\ pc = "done"
    /\ input = <<55216, 40959>>
    /\ result

\* The list without its j-th entry
Remove(list, j) == SubSeq(list, 1, j - 1) \o SubSeq(list, j + 1, Len(list))

\* A table whose pattern does not compile, or without 'pattern' or 'replacement'
Broken(rule) ==
    /\ rule.type = "dict"
    /\ \/ "pattern" \notin rule.keys
       \/ "replacement" \notin rule.keys
       \/ rule.pattern.type = "str" /\ ~Compiles(rule.pattern.val)

\* C4: a custom rule whose pattern does not compile, or that lacks the
\* pattern or the replacement key, is skipped: the outcome of the call is the
\* outcome of the call with that rule taken out of the list.
C4_Isolation ==
    (call = "polish_text" /\ pc \in {"done", "raised"}) =>
        \A j \in 1..Len(custom) :
            Broken(custom[j]) =>
                /\ raised = PolishOutcome(input, rules, Remove(custom, j)).raised
                /\ text = PolishOutcome(input, rules, Remove(custom, j)).text

\* A rule that does not compile stood between two rules that both acted
C4_Witness ==
    /\ pc = "done"
    /\ custom = <<space_to_underscore, bad_rule, underscore_to_hyphen>>
    /\ input = <<Sample.zhong, 97>>
    /\ text = <<Sample.zhong, Cp.hyphen, 97>>

\* C5: polish_text raises no exception, whatever the list of custom rules
\* holds (a pattern or replacement that is no string, an entry that is no
\* table).
C5_NeverRaises == call = "polish_text" => (raised = "none" /\ pc # "raised")

\* The rules 1..n of the list applied in the declared order
CustomPrefix(t, list, n) == _apply_custom_rules(t, SubSeq(list, 1, n)).text

\* C6: the custom rules run after every built-in rule, the universal ones
\* included, in the order of the list, and before the final trim.
C6_CustomOrder ==
    call = "polish_text" =>
        /\ \A i, j \in 1..Len(log) :
               (i < j /\ log[i] = "custom_rule") => log[j] \in {"custom_rule", "rstrip"}
        /\ \A i \in 1..Len(log) : log[i] = "rstrip" => i = Len(log)
        /\ pc = "custom_rules" =>
               text = CustomPrefix(BuiltinRules(input, rules), custom, k - 1)
        /\ pc = "done" =>
               text = rstrip(CustomPrefix(BuiltinRules(input, rules), custom, Len(custom)))

\* Two rules that do not commute acted on the space a built-in rule put in
C6_Witness ==
    /\ pc = "done"
    /\ custom = <<space_to_underscore, underscore_to_hyphen>>
    /\ input = <<Sample.zhong, 97>>
    /\ text = <<Sample.zhong, Cp.hyphen, 97>>
    /\ log[Len(log) - 3] = "excessive_newline"

-----------------------------------------------------------------------------
(* Properties of the adapters.                                             *)

\* The spans of t that the pattern M matches, left to right
Spans(M(_, _), t) ==
    LET starts == MatchStarts(M, t)
    IN  [j \in 1..Len(starts) |-> SubSeq(t, starts[j], M(t, starts[j]))]

\* The number of places of t at which the literal lit stands
Occurrences(t, lit) == Cardinality({ i \in 1..Len(t) : Lit(t, i, lit) })

\* C7: every fenced code block of a Markdown text, from an opening ``` to
\* the nearest closing ```, stands in the output of MarkdownProcessor.process
\* byte for byte as in the input, the blocks in the same order.
C7_FencedPreserved ==
    (call = "MarkdownProcessor.process" /\ pc = "done") =>
        Spans(FencedPattern, text) = Spans(FencedPattern, input)

\* C8: when an adapter puts a captured span back, the placeholder of the span
\* stands in the text exactly once, where the adapter inserted it: the span
\* returns to its place, whatever the input holds, and no other text is
\* replaced by it.
C8_PlaceholderSafety ==
    (pc = "restore" /\ k <= Len(code_blocks)) =>
        Occurrences(text,
                    Placeholder(IF call = "MarkdownProcessor.process"
                                THEN CODE_BLOCK ELSE HTML_CODE, k - 1)) = 1

\* A code, pre, script or style element of the text
SkipElementPattern(t, i) ==
    IF BlockPattern(TagChars.code, t, i) # 0 THEN BlockPattern(TagChars.code, t, i)
    ELSE IF BlockPattern(TagChars.pre, t, i) # 0 THEN BlockPattern(TagChars.pre, t, i)
    ELSE IF BlockPattern(TagChars.script, t, i) # 0 THEN BlockPattern(TagChars.script, t, i)
    ELSE BlockPattern(TagChars.style, t, i)

\* C9: on both paths of HTMLProcessor.process the code, pre, script and style
\* elements of the input stand in the output with their content unchanged.
C9_SkipContentKept ==
    (call = "HTMLProcessor.process" /\ pc = "done") =>
        Spans(SkipElementPattern, text) = Spans(SkipElementPattern, input)

\* The tree with every string that is not blank and not inside a code, pre,
\* script or style element replaced by its polished text
RECURSIVE PolishedTree(_, _, _)
PolishedTree(nodes, r, c) ==
    [j \in 1..Len(nodes) |->
        IF nodes[j].kind = "text"
        THEN IF IsBlankText(nodes[j].text) THEN nodes[j]
             ELSE TextNode(polish_text(nodes[j].text, r, c))
        ELSE IF nodes[j].name \in {"code", "pre", "script", "style"} THEN nodes[j]
        ELSE [nodes[j] EXCEPT !.children = PolishedTree(nodes[j].children, r, c)]]

\* C10: the output of HTMLProcessor.process is the input document with every
\* non-blank string outside code, pre, script and style elements polished, at
\* every depth and at the top level, and with the tags as they were.
C10_TextNodesPolished ==
    (call = "HTMLProcessor.process" /\ pc = "done") =>
        text = Serialize(PolishedTree(doc, rules, custom))

\* C11: the text polish_text_verbose returns is the text polish_text returns
\* for the same text and the same configuration.
C11_VerboseSameText ==
    (call = "polish_text_verbose" /\ pc = "done") =>
        text = polish_text(input, rules, custom)

\* The statement j of polish_text on the outcome prev of the statements before
\* it, with every rule enabled and the statement of the rule name left out
AllButStep(name, j, prev) ==
    IF Statements[j] = "contains_cjk"
    THEN [prev EXCEPT !.cjk = contains_cjk(prev.text)]
    ELSE IF Statements[j] = name THEN prev
    ELSE IF (\E m \in 1..Len(CjkBlock) : CjkBlock[m] = Statements[j]) /\ ~prev.cjk
    THEN prev
    ELSE [prev EXCEPT !.text = Stage(Statements[j], prev.text, AllOn)]

\* The built-in statements of polish_text with every rule but the rule name
\* enabled, the statement of name left out, and the final trim
AllBut(name, t) ==
    LET run[j \in 0..Len(Statements)] ==
            IF j = 0 THEN [text |-> t, cjk |-> FALSE]
            ELSE AllButStep(name, j, run[j - 1])
    IN  rstrip(run[Len(Statements)].text)

\* The text t has a site of the rule name, and no other statement of the
\* pipeline before the newline collapsing changes it
OnlyRuleChanging(name, t) ==
    /\ Stage(name, t, AllOn) # t
    /\ \A j \in 1..Len(Statements) :
          Statements[j] \notin {name, "contains_cjk", "excessive_newline"}
              => Stage(Statements[j], t, AllOn) = t

\* C12: under a configuration that disables the built-in rule name, the
\* result of polish_text is what the other rules make of the input, and an
\* input that only the disabled rule would change comes back unchanged but
\* for the newline collapsing and the final trim.
C12_DisabledNoOp ==
    (call = "polish_text" /\ pc = "done" /\ custom = <<>>) =>
        \A name \in RuleNames :
            rules = OffConfig(name) =>
                /\ text = AllBut(name, input)
                /\ OnlyRuleChanging(name, input)
                       => text = rstrip(CollapseNewlines(input))

\* The dash rule is off, the input has a site of it and of the spacing rule
C12_Witness ==
    /\ call = "polish_text"
    /\ pc = "done"
    /\ rules = OffConfig("dash_conversion")
    /\ input = <<Sample.zhong, Cp.hyphen, Cp.hyphen, Sample.zhong, Sample.zhong, 97>>
    /\ text = <<Sample.zhong, Cp.hyphen, Cp.hyphen, Sample.zhong, Sample.zhong, Cp.space, 97>>

\* The whitespace and the run of two or more hyphens that stand between two
\* characters of the CJK set; the site starts after the first of them
DashSite(t, i) ==
    LET a == Span(IsSpace, t, i)
        b == Span(IsHyphen, t, a)
        c == Span(IsSpace, t, b)
    IN  IF /\ i >= 2 /\ CJK_CHARS_PATTERN(t[i - 1])
           /\ b - a >= 2
           /\ c <= Len(t) /\ CJK_CHARS_PATTERN(t[c])
        THEN c - 1 ELSE 0

\* The em-dash pair with the spacing of the rule
DashSiteRepl(t, i, e) ==
    (IF t[i - 1] \in {Cp.fwrparen, 12299} THEN <<>> ELSE <<Cp.space>>)
        \o CJK_EM_DASH
        \o (IF t[e + 1] \in {Cp.fwlparen, 12298} THEN <<>> ELSE <<Cp.space>>)

\* C13: _replace_dash turns a run of two or more hyphens, with the whitespace
\* around it, into the em-dash pair exactly when the nearest characters that
\* are no whitespace are in the CJK set on both sides, and leaves every other
\* character of the text as it is.
C13_DashIffCjk ==
    (call = "_replace_dash" /\ pc = "done") =>
        text = ReSub(DashSite, DashSiteRepl, input)

\* The lines of t that are a run of two or more hyphens and nothing else
HyphenLines(t) ==
    SelectSeq(Split(t, Cp.nl),
              LAMBDA line : Len(line) >= 2 /\ \A i \in 1..Len(line) : line[i] = Cp.hyphen)

\* C14: a run of two or more hyphens that stands alone on its line is a line
\* of the result of polish_text as well, whatever the lines around it hold.
C14_RuleLineKept ==
    (call = "polish_text" /\ pc = "done") => HyphenLines(text) = HyphenLines(input)

\* The last position before i, and the first after i, of a character of t
\* that is no whitespace (0: there is none)
NonSpaceBefore(t, i) ==
    LET S == { p \in 1..(i - 1) : ~IsSpace(t[p]) }
    IN  IF S = {} THEN 0 ELSE CHOOSE p \in S : \A x \in S : x <= p

NonSpaceAfter(t, i) ==
    LET S == { q \in (i + 1)..Len(t) : ~IsSpace(t[q]) }
    IN  IF S = {} THEN 0 ELSE CHOOSE q \in S : \A x \in S : q <= x

\* The em-dash pair at i of t has one space on each side, and none beside a
\* closing bracket before it or an opening bracket after it
EmdashSpaced(t, i) ==
    LET p == NonSpaceBefore(t, i)
        q == NonSpaceAfter(t, i + 1)
    IN  (p # 0 /\ q # 0) =>
            /\ SubSeq(t, p + 1, i - 1) =
                   (IF t[p] \in {Cp.fwrparen, 12299} THEN <<>> ELSE <<Cp.space>>)
            /\ SubSeq(t, i + 2, q - 1) =
                   (IF t[q] \in {Cp.fwlparen, 12298} THEN <<>> ELSE <<Cp.space>>)

\* C15: in the text _fix_emdash_spacing returns, every em-dash pair that has
\* a character other than whitespace before and after it is spaced as the
\* rule says, however many pairs the text holds.
C15_EmdashSpacing ==
    (call = "_fix_emdash_spacing" /\ pc = "done") =>
        \A i \in 1..Len(text) : Lit(text, i, CJK_EM_DASH) => EmdashSpaced(text, i)

\* An ASCII letter or digit or a character of a CJK script stands at i of t
ScriptAt(t, i) == i >= 1 /\ i <= Len(t) /\ (IsAlnum(t[i]) \/ CJK_ALL(t[i]))

\* The text t with a space before every opening quote that follows a script
\* character or an em-dash pair, and a space after every closing quote that
\* such a character or pair follows
QuotesSpaced(t, opening_quote, closing_quote) ==
    LET before(i) ==
            IF t[i] = opening_quote /\ (ScriptAt(t, i - 1) \/ Lit(t, i - 2, CJK_EM_DASH))
            THEN <<Cp.space>> ELSE <<>>
        after(i) ==
            IF t[i] = closing_quote /\ (ScriptAt(t, i + 1) \/ Lit(t, i + 1, CJK_EM_DASH))
            THEN <<Cp.space>> ELSE <<>>
        f[i \in 0..Len(t)] ==
            IF i = 0 THEN <<>> ELSE f[i - 1] \o before(i) \o <<t[i]>> \o after(i)
    IN  f[Len(t)]

ThirdNewlinesDropped(t) ==
    SelectSeq([i \in 1..Len(t) |->
                  IF t[i] = Cp.nl /\ At(t, i - 1) = Cp.nl /\ At(t, i - 2) = Cp.nl
                  THEN <<>> ELSE <<t[i]>>],
              LAMBDA c : c # <<>>)

\* The characters of a sequence of one-character texts
Flat(parts) == [i \in 1..Len(parts) |-> parts[i][1]]

\* C17: the newline collapsing of polish_text replaces every run of three or
\* more newlines of the text it gets by exactly two, in CJK text and in other
\* text, and without custom rules the result of polish_text holds no run of
\* three newlines.
C17_NewlinesCollapsed ==
    [][/\ (call = "polish_text" /\ pc = "excessive_newline")
              => text' = Flat(ThirdNewlinesDropped(text))
       /\ (call = "polish_text" /\ pc' = "done" /\ custom = <<>>)
              => \A i \in 1..Len(text') : ~Lit(text', i, <<Cp.nl, Cp.nl, Cp.nl>>)]_vars

\* Six newlines before a Han character became two
C17_Witness ==
    /\ call = "polish_text"
    /\ pc = "done"
    /\ custom = <<>>
    /\ input = <<Cp.nl, Cp.nl, Cp.nl, Cp.nl, Cp.nl, Cp.nl, Sample.zhong>>
    /\ text = <<Cp.nl, Cp.nl, Sample.zhong>>

\* A space or a tab, the characters of indentation
IsIndent(c) == c \in {Cp.space, Cp.tab}

\* The run of spaces and tabs at the start of t
LeadingWhitespace(t) == SubSeq(t, 1, Span(IsIndent, t, 1) - 1)

\* C18: the result of polish_text does not end in whitespace, and it starts
\* with the spaces and tabs the input starts with (an input that is
\* whitespace only is trimmed to the empty text).
C18_FinalTrim ==
    (call = "polish_text" /\ pc = "done") =>
        /\ text = <<>> \/ ~IsSpace(text[Len(text)])
        /\ ~IsBlankText(input) => LeadingWhitespace(text) = LeadingWhitespace(input)

\* C19: after either merge the rules mapping holds built-in names only; a
\* built-in name the overriding source mentions has the value of that source,
\* every other name of the base keeps its value; and the custom rules are
\* those of the base followed by those of the overriding source.
C19_Merge ==
    (call \in {"_merge_config_data", "merge_configs"} /\ pc = "done") =>
        LET given == IF "rules" \in override.keys THEN override.rules ELSE <<>>
            added == IF "custom_rules" \in override.keys THEN override.custom_rules ELSE <<>>
        IN  /\ DOMAIN rules \subseteq DOMAIN DEFAULT_RULES
            /\ \A key \in DOMAIN given \cap DOMAIN DEFAULT_RULES :
                   key \in DOMAIN rules /\ rules[key] = given[key]
            /\ \A key \in DOMAIN base.rules \ DOMAIN given :
                   key \in DOMAIN rules /\ rules[key] = base.rules[key]
            /\ custom = base.custom_rules \o added

\* C20: polish_text under a rules mapping returns what it returns under
\* DEFAULT_RULES updated by that mapping: a rule the mapping does not mention
\* is on or off as DEFAULT_RULES has it, fullwidth_brackets off.
C20_DefaultsForUnmentioned ==
    (call = "polish_text" /\ pc = "done") =>
        text = polish_text(input, Update(DEFAULT_RULES, rules, DOMAIN rules), custom)

\* The full-width equivalent of a mark of half_to_full, the character itself
\* for any other
FullOf(c) ==
    IF \E m \in 1..Len(half_to_full) : half_to_full[m][1] = c
    THEN half_to_full[CHOOSE m \in 1..Len(half_to_full) : half_to_full[m][1] = c][2]
    ELSE c

\* The mark at i has Han or kana before it, and Han or kana or the end of the
\* text after it
PunctSite(t, i) ==
    /\ FullOf(t[i]) # t[i]
    /\ i > 1 /\ CJK_NO_KOREAN(t[i - 1])
    /\ (i = Len(t) \/ CJK_NO_KOREAN(t[i + 1]))

\* C21: _normalize_fullwidth_punctuation replaces by its full-width
\* equivalent every mark with Han or kana before it and Han, kana or the end
\* of the text after it, and changes no other character.
C21_PunctIffCjk ==
    (call = "_normalize_fullwidth_punctuation" /\ pc = "done") =>
        text = [i \in 1..Len(input) |->
                    IF PunctSite(input, i) THEN FullOf(input[i]) ELSE input[i]]

\* The first position of the run of spaces that holds position i of t
RECURSIVE RunStart(_, _)
RunStart(t, i) == IF At(t, i - 1) = Cp.space THEN RunStart(t, i - 1) ELSE i

\* The text t without the second and later spaces of the runs of spaces that
\* follow a character other than whitespace
SpacesCollapsed(t) ==
    Flat(SelectSeq([i \in 1..Len(t) |->
                       IF /\ t[i] = Cp.space
                          /\ RunStart(t, i) < i
                          /\ RunStart(t, i) > 1
                          /\ ~IsSpace(t[RunStart(t, i) - 1])
                       THEN <<>> ELSE <<t[i]>>],
                   LAMBDA c : c # <<>>))

\* C22: with space_collapsing enabled, the space collapsing of polish_text
\* reduces every run of two or more spaces that follows a character other
\* than whitespace to one space and changes nothing else (runs of spaces at
\* the start of a line and newlines stay), and without custom rules the
\* result of polish_text on CJK text holds no character other than
\* whitespace followed by two spaces.
C22_SpacesCollapsed ==
    [][/\ (call = "polish_text" /\ pc = "space_collapsing"
              /\ is_enabled(rules, "space_collapsing"))
              => text' = SpacesCollapsed(text)
       /\ (call = "polish_text" /\ pc' = "done" /\ custom = <<>>
              /\ is_enabled(rules, "space_collapsing")
              /\ \E j \in 1..Len(log) : log[j] = "space_collapsing")
              => \A i \in 1..Len(text') :
                     ~(~IsSpace(text'[i]) /\ Lit(text', i + 1, <<Cp.space, Cp.space>>))]_vars

\* Three spaces between a Han character and a Latin letter became one
C22_Witness ==
    /\ call = "polish_text"
    /\ pc = "done"
    /\ input = <<Sample.zhong, Cp.space, Cp.space, Cp.space, 97>>
    /\ text = <<Sample.zhong, Cp.space, 97>>

\* The first position of the run of whitespace that holds position i of t
RECURSIVE WhitespaceStart(_, _)
WhitespaceStart(t, i) ==
    IF i > 1 /\ IsSpace(t[i - 1]) THEN WhitespaceStart(t, i - 1) ELSE i

\* A currency symbol, or a currency code USD, CNY, EUR or GBP, ends at i
CurrencyEndsAt(t, i) ==
    \/ At(t, i) \in {Cp.dollar, Cp.yen, Cp.euro, Cp.pound, Cp.rupee}
    \/ /\ i >= 3
       /\ SubSeq(t, i - 2, i) \in
              { <<85, 83, 68>>, <<67, 78, 89>>, <<69, 85, 82>>, <<71, 66, 80>> }

\* C23: _fix_currency_spacing removes the whitespace between a currency
\* symbol or a currency code and the digit that follows, and changes no other
\* character: whitespace between any other character and a digit stays.
C23_CurrencySpacing ==
    (call = "_fix_currency_spacing" /\ pc = "done") =>
        text = Flat(SelectSeq(
                   [i \in 1..Len(input) |->
                       IF /\ IsSpace(input[i])
                          /\ CurrencyEndsAt(input, WhitespaceStart(input, i) - 1)
                          /\ IsDigit(At(input, Span(IsSpace, input, i)))
                       THEN <<>> ELSE <<input[i]>>],
                   LAMBDA c : c # <<>>))

\* A slash stands at i with no slash beside it
LoneSlash(t, i) ==
    At(t, i) = Cp.slash /\ At(t, i - 1) # Cp.slash /\ At(t, i + 1) # Cp.slash

\* C24: _fix_slash_spacing removes the whitespace directly before and
\* directly after every slash that has no slash beside it, whatever stands
\* beyond the whitespace, and changes no other character.
C24_SlashSpacing ==
    (call = "_fix_slash_spacing" /\ pc = "done") =>
        text = Flat(SelectSeq(
                   [i \in 1..Len(input) |->
                       IF /\ IsSpace(input[i])
                          /\ \/ LoneSlash(input, WhitespaceStart(input, i) - 1)
                             \/ LoneSlash(input, Span(IsSpace, input, i))
                       THEN <<>> ELSE <<input[i]>>],
                   LAMBDA c : c # <<>>))

\* A CJK script character stands beside an ASCII letter or digit in t
CjkBesideAlnum(t) ==
    \E i \in 1..(Len(t) - 1) :
        \/ CJK_ALL(t[i]) /\ IsAlnum(t[i + 1])
        \/ IsAlnum(t[i]) /\ CJK_ALL(t[i + 1])

\* A unit suffix that belongs to the letters and digits before it ends at i
UnitSuffixEndsAt(t, i) ==
    /\ At(t, i) \in {Cp.percent, Cp.permille, Cp.celsius, Cp.fahrenheit, Cp.degree}
    /\ i > 1 /\ IsAlnum(t[i - 1])

\* The texts of a sequence, one after the other
RECURSIVE Concat(_)
Concat(parts) == IF parts = <<>> THEN <<>> ELSE Head(parts) \o Concat(Tail(parts))

\* The text t with one space at every place where a CJK script character
\* meets a letter, a digit, or the unit suffix of a number before it
SpacedBetween(t) ==
    Concat([i \in 1..Len(t) |->
             IF i > 1 /\ \/ CJK_ALL(t[i - 1]) /\ IsAlnum(t[i])
                         \/ IsAlnum(t[i - 1]) /\ CJK_ALL(t[i])
                         \/ UnitSuffixEndsAt(t, i - 1) /\ CJK_ALL(t[i])
             THEN <<Cp.space, t[i]>> ELSE <<t[i]>>])

\* C25: with cjk_english_spacing enabled, the spacing statement of
\* polish_text puts exactly one space at every place where a CJK script
\* character meets an ASCII letter or digit, in either direction, or meets
\* the unit suffix that ends a number, and changes nothing else (a boundary
\* that holds a space stays as it is); and without custom rules the result
\* of polish_text on CJK text has no CJK script character beside an ASCII
\* letter or digit.
C25_CjkLatinSpacing ==
    [][/\ (call = "polish_text" /\ pc = "cjk_english_spacing"
              /\ is_enabled(rules, "cjk_english_spacing"))
              => text' = SpacedBetween(text)
       /\ (call = "polish_text" /\ pc' = "done" /\ custom = <<>>
              /\ is_enabled(rules, "cjk_english_spacing")
              /\ \E j \in 1..Len(log) : log[j] = "cjk_english_spacing")
              => ~CjkBesideAlnum(text')]_vars

\* A number with its unit suffix between two Han characters got a space
\* before the number and one after the suffix
C25_Witness ==
    /\ call = "polish_text"
    /\ pc = "done"
    /\ input = <<Sample.zhong, 53, Cp.percent, Sample.zhong>>
    /\ text = <<Sample.zhong, Cp.space, 53, Cp.percent, Cp.space, Sample.zhong>>

\* The line begins with four spaces or with a tab
Indented(line) ==
    \/ Len(line) >= 4 /\ \A i \in 1..4 : line[i] = Cp.space
    \/ Len(line) >= 1 /\ line[1] = Cp.tab

\* After line j of ls a block of indented code is open: some line up to j is
\* indented, and every line after it up to j is indented or blank
InCodeAfter(ls, j) ==
    \E i \in 1..j :
        /\ Indented(ls[i])
        /\ \A m \in (i + 1)..j : Indented(ls[m]) \/ IsBlankText(ls[m])

\* C26: while MarkdownProcessor.process walks the lines, in_indented_code
\* is true exactly when an indented line has been read and no line that is
\* neither indented nor blank has been read since; the lines passed to
\* polish_text are the lines after which the flag is false, each of them is
\* emitted polished, and every other line is emitted as it was read.
C26_IndentedScanner ==
    (call = "MarkdownProcessor.process" /\ pc = "lines") =>
        /\ in_indented_code = InCodeAfter(lines, k - 1)
        /\ Len(processed_lines) = k - 1
        /\ \A j \in 1..(k - 1) :
               processed_lines[j] = IF InCodeAfter(lines, j) THEN lines[j]
                                    ELSE polish_text(lines[j], rules, custom)
        /\ fed = SelectSeq([j \in 1..(k - 1) |-> IF InCodeAfter(lines, j) THEN <<0>> ELSE lines[j]],
                           LAMBDA line : line # <<0>>)

\* An indented line and the line of two spaces after it were emitted as they
\* were, and the prose line after them was polished
C26_Witness ==
    /\ call = "MarkdownProcessor.process"
    /\ pc = "lines"
    /\ lines = << <<Cp.tab>> \o ProseSample, <<Cp.space, Cp.space>>, ProseSample >>
    /\ processed_lines = << <<Cp.tab>> \o ProseSample, <<Cp.space, Cp.space>>,
                            <<Sample.zhong, Cp.space, 97>> >>
    /\ ~in_indented_code

\* The number of matches of EMDASH_SPACING_PATTERN in t that
\* _fix_emdash_spacing replaces by a text other than the match
ChangedSites(t) ==
    LET n == Len(t)
        f[pos \in 1..(n + 1)] ==
            LET i == NextMatch(EMDASH_SPACING_PATTERN, t, pos)
                e == EMDASH_SPACING_PATTERN(t, i)
            IN  IF i = 0 THEN 0
                ELSE (IF SubSeq(t, i, e) # EmdashRepl(t, i, e) THEN 1 ELSE 0) + f[e + 1]
    IN  f[1]

\* C27: the emdash_spacing_fixed that polish_text_verbose records is the
\* number of em-dash sites whose spacing the emdash_spacing rule changes: a
\* site that reads as the correct spacing is not counted and every site that
\* is rewritten is counted.
C27_EmdashCount ==
    [][(call = "polish_text_verbose" /\ pc = "emdash_spacing"
            /\ is_enabled(rules, "emdash_spacing"))
          => stats'.emdash_spacing_fixed = ChangedSites(text)]_vars

\* The iteration of the loop of polish_text_verbose for rule on the text t
\* carries out the substitution: the pattern matches and re.sub returns
Substituted(rule, t) ==
    /\ rule.type = "dict"
    /\ {"pattern", "replacement"} \subseteq rule.keys
    /\ VerboseCount(rule, t) > 0
    /\ SubException(rule.pattern, rule.replacement) = "none"

\* C28: the counts of custom_rules_applied are never negative; an iteration
\* of the loop over the custom rules records a count above zero under the
\* name of its rule when it carries out the substitution, and leaves
\* custom_rules_applied as it was when the rule matches nothing or is
\* skipped because applying it fails.
C28_CustomCounts ==
    [][(call = "polish_text_verbose" /\ pc = "custom_rules" /\ k <= Len(custom)
            /\ raised' = "none")
          => LET rule == custom[k]
                 rule_name == IF "name" \in rule.keys THEN rule.name ELSE "custom"
                 applied == stats'.custom_rules_applied
             IN  /\ \A n \in DOMAIN applied : applied[n] >= 0
                 /\ IF Substituted(rule, text)
                    THEN rule_name \in DOMAIN applied /\ applied[rule_name] > 0
                    ELSE applied = stats.custom_rules_applied]_vars

\* The number of newline characters of t
Newlines(t) == Cardinality({ i \in 1..Len(t) : t[i] = Cp.nl })

\* C29: for a text without a run of three newlines that does not end in
\* whitespace, polish_text without custom rules returns a text with as many
\* newline characters as the text it was given.
C29_LineBreaksKept ==
    (/\ call = "polish_text" /\ pc = "done" /\ custom = <<>>
     /\ \A i \in 1..Len(input) : ~Lit(input, i, <<Cp.nl, Cp.nl, Cp.nl>>)
     /\ (input = <<>> \/ ~IsSpace(input[Len(input)])))
        => Newlines(text) = Newlines(input)

\* The whitespace that t begins with
WhitespaceBefore(t) ==
    SubSeq(t, 1, Cardinality({ i \in 1..Len(t) : \A j \in 1..i : IsSpace(t[j]) }))

\* The tree with every string outside code and pre elements replaced by
\* polish_text of it, the strings of whitespace alone left as they are when
\* the document was parsed
RECURSIVE RunsPolished(_, _, _, _)
RunsPolished(nodes, r, c, parsed) ==
    [j \in 1..Len(nodes) |->
        IF nodes[j].kind = "text"
        THEN IF parsed /\ IsBlankText(nodes[j].text) THEN nodes[j]
             ELSE TextNode(polish_text(nodes[j].text, r, c))
        ELSE IF nodes[j].name \in {"code", "pre"} THEN nodes[j]
        ELSE [nodes[j] EXCEPT !.children = RunsPolished(nodes[j].children, r, c, parsed)]]

\* C30: with and without the parser, HTMLProcessor.process writes
\* polish_text(run) in the place of every text run inside the elements it
\* walks, so that no whitespace is left between a string and the tag after
\* it; a run that is not whitespace alone keeps the whitespace it begins
\* with and loses the whitespace it ends with; with the parser, a run of
\* whitespace alone stays as it is.
C30_RunsReplaced ==
    (call = "HTMLProcessor.process" /\ pc = "done") =>
        /\ text = Serialize(RunsPolished(doc, rules, custom, bs4_available))
        /\ \A j \in 1..Len(fed) :
              ~IsBlankText(fed[j]) =>
                  LET polished == polish_text(fed[j], rules, custom)
                  IN  /\ WhitespaceBefore(polished) = WhitespaceBefore(fed[j])
                      /\ polished # <<>>
                      /\ ~IsSpace(polished[Len(polished)])

====
